---- MODULE Spec2Model ----
(***************************************************************************)
(* Model of server/handlers/slackHandler.js (class SlackHandler): the job  *)
(* registry (trackedTorrents, torrentMetadata), the completion             *)
(* notification, the slash commands and the message listeners with their   *)
(* session cache (searchResults).                                          *)
(*                                                                         *)
(* Every async handler is cut at its awaits on external collaborators: one *)
(* action is one synchronous slice, from the resumption after an await to  *)
(* the call of the next awaited collaborator.  The effect and the outcome  *)
(* of a collaborator call are fixed when the call is made; the outcome is  *)
(* kept in the task (field ok) until the task resumes.                     *)
(***************************************************************************)
EXTENDS Integers, Sequences, FiniteSets, TLC

\* ------------------------------------------------------------- bounds
\* /torrent commands dispatched; command r creates the objects of registration r
MaxAdds == 2
\* progress tasks (monitorProgress ticks, direct updateTorrentProgress calls) in flight
MaxTasks == 2
\* transport calls that fail in one behaviour
MaxFaults == 1
\* /torrent-move commands dispatched
MaxMoves == 2
\* /torrent-search commands dispatched
MaxSearches == 1
\* numeric replies of users
MaxSelects == 2
\* add replies of users
MaxReplies == 2
\* torrents a search returns at most (the code asks the provider for 10)
MaxResults == 2
\* the last tick of the clock
MaxTime == 3
MaxMagnets == 2

\* ------------------------------------------------------------- program constants
\* the clock of the model ticks every five minutes: the delay after which a
\* search session is deleted (10 * 60 * 1000 ms) is two ticks
SearchTTL == 2
\* the delay after which a magnet session is deleted (5 * 60 * 1000 ms): one tick
MagnetTTL == 1

\* ------------------------------------------------------------- values
Id1 == <<"a", "b">>
Id2 == <<"a", "C">>
Ids == {Id1, Id2}
\* the order in which the download engine lists its torrents
IdSeq == <<Id1, Id2>>
NoId == <<>>

\* arguments of direct updateTorrentProgress calls (integer percentages)
ProgVals == {0, 100, 150}
\* progress of the download engine in thousandths (torrent.progress * 1000)
FracVals == {0, 994, 996, 1000}

Objs == 1..MaxAdds
MoveIds == 1..MaxMoves
TaskIds == 1..MaxTasks

VARIABLES
    isEnabled,        \* this.isEnabled
    torrentHandler,   \* this.torrentHandler is set
    torrentMoveHandler, \* this.torrentMoveHandler is set
    cacheClearHandler,  \* this.cacheClearHandler is set
    torrentListHandler, \* this.torrentListHandler is set
    appRunning,       \* this.app is started and not stopped
    trackedTorrents,  \* Map infoHash -> tracked object (0: no entry)
    torrentMetadata,  \* Map infoHash -> metadata object (0: no entry)
    metaOrder,        \* insertion order of the keys of torrentMetadata
    tracked,          \* the tracked objects {progress, notified}; tracked object r
                      \* holds metadata object r in its field metadata
    metadata,         \* the metadata objects
    engine,           \* the download engine: progress per torrent, -1: absent
    reactions,        \* transport: the reactions now on each message
    published,        \* transport: completion messages posted, in order
    faults,           \* transport calls that may still fail
    addTask,          \* the /torrent command tasks
    moveTask,         \* the /torrent-move command tasks
    magTask,          \* the magnet-link listener tasks
    tasks,            \* the progress tasks
    notifyCalls,      \* history: sendCompletionNotification calls per tracked object
    postFailed,       \* history: tracked objects whose chat.postMessage failed
    searchResults,    \* Map message ts -> session, as its entries in insertion order
    timers,           \* the pending setTimeout callbacks: the key each deletes, and when
    now,              \* the clock, in ticks of five minutes
    searches,         \* /torrent-search commands dispatched
    selTask,          \* the numeric-reply listener tasks
    replyTask,        \* the add-reply listener tasks
    stored,           \* history: the sessions stored, with the tick of the store
    ev                \* history: what the last slice reported

vars == <<isEnabled, torrentHandler, torrentMoveHandler, cacheClearHandler,
          torrentListHandler, appRunning,
          trackedTorrents, torrentMetadata, metaOrder, tracked, metadata, engine,
          reactions, published, faults, addTask, moveTask, magTask, tasks, notifyCalls,
          postFailed, searchResults, timers, now, searches, selTask, replyTask,
          stored, ev>>

setupVars == <<isEnabled, torrentHandler, torrentMoveHandler, cacheClearHandler,
               torrentListHandler, appRunning>>
cmdVars == <<addTask, moveTask, magTask>>
registryVars == <<trackedTorrents, torrentMetadata, metaOrder, tracked, metadata>>
transportVars == <<reactions, published, postFailed, faults>>
sessionVars == <<searchResults, timers, now, searches, selTask, replyTask, stored>>

\* ------------------------------------------------------------- helpers
NoEv == <<>>

NoMeta == [infoHash |-> NoId, type |-> "", destination |-> "", channel |-> "",
           messageTs |-> <<"none", 0>>]
NoTracked == [progress |-> 0, notified |-> FALSE]
NoAdd == [pc |-> "none", id |-> NoId, type |-> "", dest |-> "", channel |-> "", ok |-> TRUE]
NoMove == [pc |-> "none", id |-> NoId, dest |-> "", old |-> "", res |-> ""]
IdleTask == [pc |-> "idle", id |-> NoId, obj |-> 0, rest |-> <<>>, ok |-> TRUE]
\* no message ts, no torrent of a search, no listener task
NoKey == <<"none", 0>>
NoItem == <<"item", 0>>
NoSel == [pc |-> "none", thread |-> NoKey, n |-> 0, item |-> NoItem, channel |-> "",
          res |-> ""]
NoMag == [pc |-> "none", link |-> NoId, env |-> "", auto |-> FALSE, called |-> FALSE,
          cause |-> ""]
NoReply == [pc |-> "none", link |-> NoId, type |-> "", dest |-> "", called |-> FALSE]

\* mutant of RoundPct: the fraction is cut, as Math.floor would
RoundPctFloor(m) == m \div 10

\* Math.round((torrent.progress || 0) * 100), on thousandths
RoundPct(m) == (m + 5) \div 10

\* mutant of JustCompleted: the notified flag is not consulted
JustCompletedIgnoringFlag(progress, oldProgress, notified) ==
    progress >= 100 /\ oldProgress < 100

\* the condition of line 1038
JustCompleted(progress, oldProgress, notified) ==
    progress >= 100 /\ oldProgress < 100 /\ ~notified

\* the inputs of the /torrent command: the magnet link the user typed
Link(valid, id) == [valid |-> valid, id |-> id]
\* isValidMagnetLink (a link of the model is valid when it starts with
\* 'magnet:?' and includes 'xt=urn:btih:')
IsValidMagnetLink(link) == link.valid

\* mutant of ValidType: the type is not checked
ValidTypeAny(type) == TRUE

\* the test of line 125 passed: no type, or one of 'movie' and 'tv'
ValidType(type) == ~(type # "" /\ type \notin {"movie", "tv"})

\* mutant of DefaultDestination: one path whatever the type
DefaultDestinationFlat(type) == "/downloads"

\* the default destination of line 156
DefaultDestination(type) ==
    IF type = "movie" THEN "/app/downloads/movies"
    ELSE IF type = "tv" THEN "/app/downloads/tv"
    ELSE "/downloads"

\* the classification-specific reaction of line 1084
TypeEmoji(type) ==
    IF type = "movie" THEN "clapper" ELSE IF type = "tv" THEN "tv" ELSE "package"

\* the message a /torrent command answers with first (initialMsg.ts)
CmdMsg(r) == <<"cmd", r>>

\* the outcomes of a transport call: it may fail while faults are left;
\* client.reactions.add fails when the message already carries the reaction,
\* client.reactions.remove when it does not
Outcomes == IF faults > 0 THEN BOOLEAN ELSE {TRUE}
AddOutcomes(msg, name) == IF <<msg, name>> \in reactions THEN {FALSE} ELSE Outcomes
RemoveOutcomes(msg, name) == IF <<msg, name>> \in reactions THEN Outcomes ELSE {FALSE}
Reacted(rs, msg, name, ok) == IF ok THEN rs \cup {<<msg, name>>} ELSE rs
Unreacted(rs, msg, name, ok) == IF ok THEN rs \ {<<msg, name>>} ELSE rs
\* a call that fails although its request was in order uses up a fault
Spent(ok, expected) == IF ~ok /\ expected THEN faults - 1 ELSE faults

\* mutant of BestEffort: a failed reaction call ends the notification
BestEffortAborts(ok) == ok

\* the try/catch around each reaction call of sendCompletionNotification
\* (lines 1060-1092): a failed call is swallowed and the notification goes on
BestEffort(ok) == TRUE

\* mutant of Contained: a failed chat.postMessage is thrown on
ContainedRethrows(ok) == ok

\* the outer try/catch of sendCompletionNotification (lines 1052, 1148-1150):
\* a failed chat.postMessage is logged and does not leave the function
Contained(ok) == TRUE

\* ------------------------------------------------------------- Init
InitOf(f, objs) ==
    /\ isEnabled = FALSE
    /\ torrentHandler = FALSE
    /\ torrentMoveHandler = FALSE
    /\ cacheClearHandler = FALSE
    /\ torrentListHandler = FALSE
    /\ appRunning = FALSE
    /\ trackedTorrents = [i \in Ids |-> 0]
    /\ torrentMetadata = [i \in Ids |-> 0]
    /\ metaOrder = <<>>
    /\ tracked = [r \in objs |-> NoTracked]
    /\ metadata = [r \in objs |-> NoMeta]
    /\ engine = [i \in Ids |-> -1]
    /\ reactions = {}
    /\ published = <<>>
    /\ faults = f
    /\ addTask = [r \in objs |-> NoAdd]
    /\ moveTask = [k \in MoveIds |-> NoMove]
    /\ tasks = [t \in TaskIds |-> IdleTask]
    /\ notifyCalls = [r \in objs |-> 0]
    /\ postFailed = {}
    /\ searchResults = <<>>
    /\ timers = {}
    /\ now = 0
    /\ searches = 0
    /\ selTask = [j \in 1..MaxSelects |-> NoSel]
    /\ replyTask = [j \in 1..MaxReplies |-> NoReply]
    /\ stored = {}
    /\ magTask = [m \in 1..MaxMagnets |-> NoMag]
    /\ ev = NoEv

\* the state after construction with MaxAdds /torrent commands to come
InitWith(f) == InitOf(f, Objs)

\* the state after construction; MaxFaults transport calls may fail
Init == InitWith(MaxFaults)
\* the same with a transport that never fails
InitReliable == InitWith(0)

\* ------------------------------------------------------------- set-up
\* lines 56-98, initialize(): the app is started and isEnabled set
Initialize ==
    /\ ~isEnabled
    /\ isEnabled' = TRUE
    /\ appRunning' = TRUE
    /\ ev' = NoEv
    /\ UNCHANGED <<sessionVars, torrentHandler, torrentMoveHandler, cacheClearHandler,
                   torrentListHandler, registryVars, engine, transportVars, cmdVars, tasks, notifyCalls>>

SetTorrentHandler ==
    /\ ~torrentHandler
    /\ torrentHandler' = TRUE
    /\ ev' = NoEv
    /\ UNCHANGED <<sessionVars, isEnabled, torrentMoveHandler, cacheClearHandler,
                   torrentListHandler, appRunning, registryVars,
                   engine, transportVars, cmdVars, tasks, notifyCalls>>

\* lines 1007-1009, setTorrentListHandler
SetTorrentListHandler ==
    /\ ~torrentListHandler
    /\ torrentListHandler' = TRUE
    /\ ev' = NoEv
    /\ UNCHANGED <<sessionVars, isEnabled, torrentHandler, torrentMoveHandler,
                   cacheClearHandler, appRunning, registryVars, engine, transportVars,
                   cmdVars, tasks, notifyCalls>>

\* lines 1228-1233, stop(): with an app, the app is stopped; isEnabled and
\* client are left as they are
Stop ==
    /\ isEnabled
    /\ appRunning
    /\ appRunning' = FALSE
    /\ ev' = <<"stop">>
    /\ UNCHANGED <<sessionVars, isEnabled, torrentHandler, torrentMoveHandler,
                   cacheClearHandler, torrentListHandler, registryVars, engine,
                   transportVars, cmdVars, tasks, notifyCalls>>

\* the download engine advances a torrent to the fraction f (in thousandths)
EngineProgress(id, f) ==
    /\ engine[id] >= 0
    /\ f > engine[id]
    /\ engine' = [engine EXCEPT ![id] = f]
    /\ ev' = NoEv
    /\ UNCHANGED <<sessionVars, setupVars, registryVars, transportVars, cmdVars, tasks,
                   notifyCalls>>

\* ------------------------------------------------------------- /torrent
\* registration r (lines 149-168): the metadata object and the tracked object
\* of command r are created and stored under the infoHash of the result
Registered(meta, a, r) ==
    [meta EXCEPT ![r] = [infoHash |-> a.id,
                         type |-> IF a.type = "" THEN "unknown" ELSE a.type,
                         destination |-> IF a.dest # "" THEN a.dest
                                         ELSE DefaultDestination(a.type),
                         channel |-> a.channel,
                         messageTs |-> CmdMsg(r)]]

\* result.progress || 0 of the add collaborator: the engine's progress of the
\* torrent as an integer percentage
ResultProgress(id) == IF engine[id] < 0 THEN 0 ELSE RoundPct(engine[id])

\* lines 106-147: the command is validated and the first message is sent (the
\* await of say touches no state of the handler and is not a slice of its own);
\* then the add collaborator is called, or, when none is set, the catch of
\* lines 242-260 runs: there initialMsg (a const of the try block) is out of
\* scope, so the reaction call throws before it is made and the inner catch
\* swallows that
AddCommand(r, link, type, dest, channel) ==
    /\ isEnabled
    /\ addTask[r].pc = "none"
    /\ \A q \in DOMAIN addTask : q < r => addTask[q].pc # "none"
    /\ IF ~IsValidMagnetLink(link)
       THEN /\ addTask' = [addTask EXCEPT ![r] = [NoAdd EXCEPT !.pc = "done"]]
            /\ ev' = <<"/torrent", "usage", "link">>
            /\ UNCHANGED engine
       ELSE IF ~ValidType(type)
       THEN /\ addTask' = [addTask EXCEPT ![r] = [NoAdd EXCEPT !.pc = "done"]]
            /\ ev' = <<"/torrent", "usage", "type">>
            /\ UNCHANGED engine
       ELSE IF ~torrentHandler
       THEN /\ addTask' = [addTask EXCEPT ![r] = [NoAdd EXCEPT !.pc = "done"]]
            /\ ev' = <<"/torrent", "error", "not configured">>
            /\ UNCHANGED engine
       ELSE \E ok \in BOOLEAN :
            /\ engine' = IF ok /\ engine[link.id] < 0
                         THEN [engine EXCEPT ![link.id] = 0] ELSE engine
            /\ addTask' = [addTask EXCEPT ![r] =
                              [pc |-> "handler", id |-> link.id, type |-> type,
                               dest |-> dest, channel |-> channel, ok |-> ok]]
            /\ ev' = NoEv
    /\ UNCHANGED <<sessionVars, setupVars, registryVars, transportVars, moveTask, magTask,
                   tasks,
                   notifyCalls>>

\* mutant of Accepted: a failure of the collaborator goes unnoticed
AcceptedAlways(a) == TRUE

\* line 147: the await of the add collaborator resolved (it did not throw)
Accepted(a) == a.ok

\* lines 147-240: the result is registered, the processing reaction requested
\* (a failure of it is logged) and the success message sent; lines 242-260
\* when the collaborator threw
AddHandlerReturned(r) ==
    LET a == addTask[r] IN
    /\ a.pc = "handler"
    /\ addTask' = [addTask EXCEPT ![r] = [NoAdd EXCEPT !.pc = "done"]]
    /\ IF ~Accepted(a)
       THEN /\ ev' = <<"/torrent", "error", "collaborator">>
            /\ UNCHANGED <<registryVars, reactions, faults>>
       ELSE /\ metadata' = Registered(metadata, a, r)
            /\ torrentMetadata' = [torrentMetadata EXCEPT ![a.id] = r]
            /\ metaOrder' = IF torrentMetadata[a.id] # 0 THEN metaOrder
                            ELSE Append(metaOrder, a.id)
            /\ tracked' = [tracked EXCEPT ![r] = [progress |-> ResultProgress(a.id),
                                                   notified |-> FALSE]]
            /\ trackedTorrents' = [trackedTorrents EXCEPT ![a.id] = r]
            /\ \E ok \in AddOutcomes(CmdMsg(r), "hourglass_flowing_sand") :
                /\ reactions' = Reacted(reactions, CmdMsg(r), "hourglass_flowing_sand", ok)
                /\ faults' = Spent(ok, TRUE)
            /\ ev' = NoEv
    /\ UNCHANGED <<sessionVars, setupVars, engine, published, postFailed, moveTask, magTask,
                   tasks,
                   notifyCalls>>

\* ------------------------------------------------------------- resolver
\* String.prototype.toLowerCase on the characters of the model
ToLower(ch) ==
    IF ch = "A" THEN "a" ELSE IF ch = "B" THEN "b" ELSE IF ch = "C" THEN "c" ELSE ch
\* mutant of LowerCase: the characters are compared as they are
LowerCaseKept(str) == str

LowerCase(str) == [i \in 1..Len(str) |-> ToLower(str[i])]
\* mutant of StartsWith: every string counts as starting with the prefix
StartsWithAny(str, prefix) == TRUE

\* String.prototype.startsWith
StartsWith(str, prefix) ==
    /\ Len(prefix) <= Len(str)
    /\ SubSeq(str, 1, Len(prefix)) = prefix

\* lines 356-363 and 444-451: the first key of torrentMetadata, in insertion
\* order, that starts with hash, both lowered; NoId (null) when there is none
RECURSIVE MatchedHash(_, _)
MatchedHash(order, hash) ==
    IF order = <<>> THEN NoId
    ELSE IF StartsWith(LowerCase(Head(order)), LowerCase(hash)) THEN Head(order)
    ELSE MatchedHash(Tail(order), hash)

\* ------------------------------------------------------------- /torrent-location
\* lines 342-425: an empty argument is answered with the usage, a prefix that
\* matches no key with 'no torrent found', a match with the type and the
\* destination of the metadata; nothing is written
LocationCommand(hash) ==
    /\ isEnabled
    /\ IF hash = <<>>
       THEN ev' = <<"/torrent-location", "usage">>
       ELSE LET id == MatchedHash(metaOrder, hash) IN
            IF id = NoId
            THEN ev' = <<"/torrent-location", "not found">>
            ELSE ev' = <<"/torrent-location", id,
                         metadata[torrentMetadata[id]].destination>>
    /\ UNCHANGED <<sessionVars, setupVars, registryVars, engine, transportVars,
                   cmdVars, tasks, notifyCalls>>

\* ------------------------------------------------------------- /torrent-list
\* mutant of ListLocation: the location of every entry is 'Unknown'
ListLocationUnknown(id) == "Unknown"

\* lines 301-303: metadata?.destination || 'Unknown', for the metadata that
\* torrentMetadata holds under the infoHash of the listed torrent
ListLocation(id) ==
    IF torrentMetadata[id] = 0 \/ metadata[torrentMetadata[id]].destination = ""
    THEN "Unknown"
    ELSE metadata[torrentMetadata[id]].destination

\* lines 300-324: torrents.forEach pushes one block per torrent, in the order
\* of the array, with the beginning of its hash and its location
ListBlocks(torrents) ==
    [i \in 1..Len(torrents) |-> <<torrents[i], ListLocation(torrents[i])>>]

\* lines 264-339: without a list collaborator the reply says so; the
\* collaborator answers the array torrents (<<>> also stands for null) or
\* throws; an empty answer is replied to with 'No active torrents', any other
\* with the blocks; nothing is written
ListCommand(answered, torrents) ==
    /\ isEnabled
    /\ IF ~torrentListHandler
       THEN ev' = <<"/torrent-list", "not available">>
       ELSE IF ~answered
       THEN ev' = <<"/torrent-list", "error">>
       ELSE IF torrents = <<>>
       THEN ev' = <<"/torrent-list", "no active torrents">>
       ELSE ev' = <<"/torrent-list", "list", ListBlocks(torrents)>>
    /\ UNCHANGED <<sessionVars, setupVars, registryVars, engine, transportVars,
                   cmdVars, tasks, notifyCalls>>

\* ------------------------------------------------------------- /torrent-move
SetTorrentMoveHandler ==
    /\ ~torrentMoveHandler
    /\ torrentMoveHandler' = TRUE
    /\ ev' = NoEv
    /\ UNCHANGED <<sessionVars, isEnabled, torrentHandler, cacheClearHandler,
                   torrentListHandler, appRunning, registryVars,
                   engine, transportVars, cmdVars, tasks, notifyCalls>>

\* what the relocation collaborator answers: a status, nothing, or it throws
MoveResults == {"complete", "partial", "scheduled", "undefined", "threw"}

\* the headline of the reply, lines 484-490
MoveHeadline(res) ==
    IF res = "complete" THEN "moved"
    ELSE IF res = "partial" THEN "partially moved"
    ELSE IF res = "scheduled" THEN "scheduled"
    ELSE "location updated"

\* mutant of SetDestination: the metadata object is left as it was when the
\* relocation collaborator is called
SetDestinationDeferred(meta, obj, newDestination) == meta

\* lines 465-466: metadata.destination = newDestination, and the object is
\* stored under its key again
SetDestination(meta, obj, newDestination) ==
    [meta EXCEPT ![obj].destination = newDestination]

\* lines 428-476: validation, resolution, the destination of the metadata
\* object is overwritten, then the relocation collaborator is called; without
\* one the reply of lines 478-560 follows at once
MoveCommand(k, hash, newDestination) ==
    /\ isEnabled
    /\ moveTask[k].pc = "none"
    /\ \A q \in MoveIds : q < k => moveTask[q].pc # "none"
    /\ IF hash = <<>> \/ newDestination = ""
       THEN /\ moveTask' = [moveTask EXCEPT ![k] = [NoMove EXCEPT !.pc = "done"]]
            /\ ev' = <<"/torrent-move", "usage">>
            /\ UNCHANGED metadata
       ELSE LET id == MatchedHash(metaOrder, hash) IN
            IF id = NoId
            THEN /\ moveTask' = [moveTask EXCEPT ![k] = [NoMove EXCEPT !.pc = "done"]]
                 /\ ev' = <<"/torrent-move", "not found">>
                 /\ UNCHANGED metadata
            ELSE /\ metadata' = SetDestination(metadata, torrentMetadata[id],
                                                newDestination)
                 /\ IF torrentMoveHandler
                    THEN \E res \in MoveResults :
                         /\ moveTask' = [moveTask EXCEPT ![k] =
                                [pc |-> "mover", id |-> id, dest |-> newDestination,
                                 old |-> metadata[torrentMetadata[id]].destination,
                                 res |-> res]]
                         /\ ev' = NoEv
                    ELSE /\ moveTask' = [moveTask EXCEPT ![k] = [NoMove EXCEPT !.pc = "done"]]
                         /\ ev' = <<"/torrent-move", MoveHeadline("undefined"),
                                    newDestination>>
    /\ UNCHANGED <<sessionVars, setupVars, trackedTorrents, torrentMetadata, metaOrder,
                   tracked,
                   engine, transportVars, addTask, magTask, tasks, notifyCalls>>

\* mutant of NewLocation: the reply shows the destination the registry holds
NewLocationOfRegistry(task) == metadata[torrentMetadata[task.id]].destination

\* line 506: the new location of the reply is the command's own newDestination
NewLocation(task) == task.dest

\* lines 472-560: the collaborator is over (an exception is logged); the reply
\* names the destination the command was given
MoveReturned(k) ==
    /\ moveTask[k].pc = "mover"
    /\ moveTask' = [moveTask EXCEPT ![k] = [NoMove EXCEPT !.pc = "done"]]
    /\ ev' = <<"/torrent-move", MoveHeadline(moveTask[k].res), NewLocation(moveTask[k])>>
    /\ UNCHANGED <<sessionVars, setupVars, registryVars, engine, transportVars,
                   addTask, magTask, tasks,
                   notifyCalls>>

\* ------------------------------------------------------------- /torrent-clear-cache
SetCacheClearHandler ==
    /\ ~cacheClearHandler
    /\ cacheClearHandler' = TRUE
    /\ ev' = NoEv
    /\ UNCHANGED <<sessionVars, isEnabled, torrentHandler, torrentMoveHandler,
                   torrentListHandler, appRunning, registryVars,
                   engine, transportVars, cmdVars, tasks, notifyCalls>>

\* mutant of LowerArg: the argument is compared as it was typed
LowerArgKept(arg) == arg

\* command.text.trim().toLowerCase() on the arguments of the model
LowerArg(arg) == IF arg = "ALL" THEN "all" ELSE arg

\* the clear collaborator: every torrent, or the completed ones, leave the engine
Cleared(clearAll) ==
    [i \in Ids |-> IF clearAll \/ engine[i] = 1000 THEN -1 ELSE engine[i]]

\* lines 572-662: the collaborator is called with clearAll and its counts are
\* reported; the registry is not touched
ClearCacheCommand(arg) ==
    LET clearAll == LowerArg(arg) = "all" IN
    /\ isEnabled
    /\ IF ~cacheClearHandler
       THEN /\ ev' = <<"/torrent-clear-cache", "not available">>
            /\ UNCHANGED engine
       ELSE \E ok \in BOOLEAN :
            /\ engine' = IF ok THEN Cleared(clearAll) ELSE engine
            /\ ev' = <<"/torrent-clear-cache", arg,
                       IF clearAll THEN "all" ELSE "completed",
                       IF ok THEN "cleared" ELSE "error">>
    /\ UNCHANGED <<sessionVars, setupVars, registryVars, transportVars, cmdVars, tasks,
                   notifyCalls>>

\* ------------------------------------------------------------- progress
\* updateTorrentProgress (lines 1028-1044) applied to the items <<id, progress>>
\* in order, as monitorProgress's loop does (lines 1160-1163), up to the first
\* call that awaits the notification.  tt is the Map trackedTorrents and tr the
\* tracked objects.  A call that does not notify writes the object it read back
\* under its key (line 1043), which changes nothing.  The result: the objects,
\* the object whose notification starts (fire, 0: none) with its id, the items
\* not yet fed, and the outcome of every call made.
\* mutant of Lookup: an unknown id falls back to an entry whose key starts
\* with the same character, as the commands' partial-hash match would
LookupPartial(tt, id) ==
    LET near == {j \in Ids : tt[j] # 0 /\ ToLower(j[1]) = ToLower(id[1])}
    IN  IF tt[id] # 0 \/ near = {} THEN tt[id] ELSE tt[CHOOSE j \in near : TRUE]

\* this.trackedTorrents.get(infoHash), line 1031
Lookup(tt, id) == tt[id]

\* mutant of Recorded: notified is assigned the outcome of the test
RecordedReset(entry, progress, fire) ==
    [progress |-> progress, notified |-> fire]

\* lines 1035 and 1039: the progress is stored and notified set when the
\* notification starts
Recorded(entry, progress, fire) ==
    [progress |-> progress, notified |-> entry.notified \/ fire]

RECURSIVE Feed(_, _, _, _)
Feed(tt, tr, items, outs) ==
    IF items = <<>>
    THEN [tr |-> tr, fire |-> 0, id |-> NoId, rest |-> <<>>, outs |-> outs]
    ELSE LET id == items[1][1]
             progress == items[1][2]
             r == Lookup(tt, id)
         IN  IF ~isEnabled
             THEN Feed(tt, tr, Tail(items), Append(outs, "disabled"))
             ELSE IF r = 0
             THEN Feed(tt, tr, Tail(items), Append(outs, "miss"))
             ELSE LET fire == JustCompleted(progress, tr[r].progress, tr[r].notified)
                      tr2 == [tr EXCEPT ![r] = Recorded(@, progress, fire)]
                  IN  IF fire
                      THEN [tr |-> tr2, fire |-> r, id |-> id, rest |-> Tail(items),
                            outs |-> Append(outs, "fired")]
                      ELSE Feed(tt, tr2, Tail(items), Append(outs, "stored"))

\* the slice of a progress task ends: either nothing notifies and the task is
\* over, or sendCompletionNotification starts (lines 1049-1066) and the task
\* waits for reactions.remove
Launch(t, tt, res) ==
    /\ tracked' = res.tr
    /\ trackedTorrents' = tt
    /\ IF res.fire = 0
       THEN /\ tasks' = [tasks EXCEPT ![t] = IdleTask]
            /\ UNCHANGED <<notifyCalls, reactions, faults>>
       ELSE LET msg == metadata[res.fire].messageTs IN
            /\ notifyCalls' = [notifyCalls EXCEPT ![res.fire] = @ + 1]
            /\ \E ok \in RemoveOutcomes(msg, "hourglass_flowing_sand") :
                /\ reactions' = Unreacted(reactions, msg, "hourglass_flowing_sand", ok)
                /\ faults' = Spent(ok, <<msg, "hourglass_flowing_sand">> \in reactions)
                /\ tasks' = [tasks EXCEPT ![t] =
                                [pc |-> "rmHourglass", id |-> res.id, obj |-> res.fire,
                                 rest |-> res.rest, ok |-> ok]]

\* what a progress slice reports: the outcome of each call it made
Report(op, outs) == <<op>> \o outs

\* mutant of FreeTask: a call takes the place of an activation that is still
\* awaiting
FreeTaskTaken(t) == TRUE

\* every call is an activation of its own: it runs in a place no other
\* activation holds
FreeTask(t) ==
    /\ tasks[t].pc = "idle"
    /\ \A u \in TaskIds : u < t => tasks[u].pc # "idle"

\* a direct call updateTorrentProgress(infoHash, progress)
UpdateTorrentProgress(t, id, progress) ==
    /\ FreeTask(t)
    /\ LET res == Feed(trackedTorrents, tracked, <<<<id, progress>>>>, <<>>) IN
        /\ Launch(t, trackedTorrents, res)
        /\ ev' = <<"updateTorrentProgress", id>>
    /\ UNCHANGED <<sessionVars, setupVars, torrentMetadata, metaOrder, metadata, engine,
                   published, postFailed, cmdVars>>

\* the list the periodic driver passes: the engine's torrents
RECURSIVE EngineList(_)
EngineList(ids) ==
    IF ids = <<>> THEN <<>>
    ELSE IF engine[Head(ids)] < 0 THEN EngineList(Tail(ids))
    ELSE <<<<Head(ids), engine[Head(ids)]>>>> \o EngineList(Tail(ids))

\* the items monitorProgress feeds (line 1161)
RECURSIVE Rounded(_)
Rounded(list) ==
    IF list = <<>> THEN <<>>
    ELSE <<<<list[1][1], RoundPct(list[1][2])>>>> \o Rounded(Tail(list))

\* monitorProgress(torrents), lines 1157-1164
MonitorProgress(t) ==
    /\ FreeTask(t)
    /\ IF ~isEnabled
       THEN /\ ev' = <<"monitorProgress", "off">>
            /\ UNCHANGED <<tracked, trackedTorrents, tasks, notifyCalls, reactions, faults>>
       ELSE LET res == Feed(trackedTorrents, tracked, Rounded(EngineList(IdSeq)), <<>>) IN
            /\ Launch(t, trackedTorrents, res)
            /\ ev' = Report("monitorProgress", res.outs)
    /\ UNCHANGED <<sessionVars, setupVars, torrentMetadata, metaOrder, metadata, engine,
                   published, postFailed, cmdVars>>

\* ------------------------------------------------------------- notification
\* control leaves sendCompletionNotification, updateTorrentProgress stores the
\* object it read at its start (line 1043) and the caller goes on with the
\* items left
Returned(t) ==
    LET tt == [trackedTorrents EXCEPT ![tasks[t].id] = tasks[t].obj]
        res == Feed(tt, tracked, tasks[t].rest, <<>>)
    IN  Launch(t, tt, res)

\* lines 1067-1080: reactions.remove is over, reactions.add(white_check_mark)
NotifyRemoved(t) ==
    LET m == metadata[tasks[t].obj] IN
    /\ tasks[t].pc = "rmHourglass"
    /\ IF BestEffort(tasks[t].ok)
       THEN \E ok \in AddOutcomes(m.messageTs, "white_check_mark") :
            /\ reactions' = Reacted(reactions, m.messageTs, "white_check_mark", ok)
            /\ faults' = Spent(ok, <<m.messageTs, "white_check_mark">> \notin reactions)
            /\ tasks' = [tasks EXCEPT ![t].pc = "addCheck", ![t].ok = ok]
            /\ UNCHANGED <<tracked, trackedTorrents, notifyCalls>>
       ELSE Returned(t)
    /\ ev' = NoEv
    /\ UNCHANGED <<sessionVars, setupVars, torrentMetadata, metaOrder, metadata, engine,
                   published, postFailed, cmdVars>>

\* lines 1078-1092: the classification-specific reaction
NotifyChecked(t) ==
    LET m == metadata[tasks[t].obj] IN
    /\ tasks[t].pc = "addCheck"
    /\ IF BestEffort(tasks[t].ok)
       THEN \E ok \in AddOutcomes(m.messageTs, TypeEmoji(m.type)) :
            /\ reactions' = Reacted(reactions, m.messageTs, TypeEmoji(m.type), ok)
            /\ faults' = Spent(ok, <<m.messageTs, TypeEmoji(m.type)>> \notin reactions)
            /\ tasks' = [tasks EXCEPT ![t].pc = "addEmoji", ![t].ok = ok]
            /\ UNCHANGED <<tracked, trackedTorrents, notifyCalls>>
       ELSE Returned(t)
    /\ ev' = NoEv
    /\ UNCHANGED <<sessionVars, setupVars, torrentMetadata, metaOrder, metadata, engine,
                   published, postFailed, cmdVars>>

\* mutant of Location: the message shows the destination the job was
\* registered with
LocationAsRegistered(m) == DefaultDestination(m.type)

\* line 1116: the Location field of the message is the destination of the
\* metadata object of line 1056, read when chat.postMessage is called
Location(m) == m.destination

\* lines 1090-1145: chat.postMessage to the thread of the metadata, with the
\* destination the metadata object holds when the call is made
NotifyTyped(t) ==
    LET m == metadata[tasks[t].obj] IN
    /\ tasks[t].pc = "addEmoji"
    /\ IF BestEffort(tasks[t].ok)
       THEN \E ok \in Outcomes :
            /\ published' = IF ok
                            THEN Append(published,
                                        [obj |-> tasks[t].obj, channel |-> m.channel,
                                         thread |-> m.messageTs, type |-> m.type,
                                         destination |-> Location(m)])
                            ELSE published
            /\ postFailed' = IF ok THEN postFailed ELSE postFailed \cup {tasks[t].obj}
            /\ faults' = Spent(ok, TRUE)
            /\ tasks' = [tasks EXCEPT ![t].pc = "post", ![t].ok = ok]
            /\ UNCHANGED <<tracked, trackedTorrents, notifyCalls, reactions>>
       ELSE Returned(t) /\ UNCHANGED <<published, postFailed>>
    /\ ev' = NoEv
    /\ UNCHANGED <<sessionVars, setupVars, torrentMetadata, metaOrder, metadata,
                   engine, cmdVars>>

\* lines 1147-1150, 1040-1044: chat.postMessage is over; a failure is caught
NotifyPosted(t) ==
    /\ tasks[t].pc = "post"
    /\ IF Contained(tasks[t].ok)
       THEN Returned(t)
       ELSE /\ tasks' = [tasks EXCEPT ![t].pc = "threw"]
            /\ UNCHANGED <<tracked, trackedTorrents, notifyCalls, reactions, faults>>
    /\ ev' = NoEv
    /\ UNCHANGED <<sessionVars, setupVars, torrentMetadata, metaOrder, metadata, engine,
                   published, postFailed, cmdVars>>

\* ------------------------------------------------------------- session cache
\* the ts of the results message of search s (response.ts, line 745) and of the
\* numeric reply j of a user (message.ts, line 844)
SearchKey(s) == <<"res", s>>
SelKey(j) == <<"sel", j>>

\* the ts of the 'Magnet Link Retrieved' message the bot answers numeric reply
\* j with (what say resolves to at line 814; the code does not keep it)
RetrievedKey(j) == <<"got", j>>

\* mutant of MagnetKey: the link is stored under the ts of the bot's answer
MagnetKeyOfAnswer(j) == RetrievedKey(j)

\* the key of line 844: message.ts, the ts of the user's numeric reply
MagnetKey(j) == SelKey(j)

\* the i-th torrent a search returns, and the torrent whose magnet link
\* TorrentSearchApi.getMagnet answers for it
Item(i) == <<"item", i>>
MagnetOf(item) == IdSeq[((item[2] - 1) % Len(IdSeq)) + 1]
\* the results of a search that found k torrents
Results(k) == [i \in 1..k |-> Item(i)]

\* an entry of searchResults: {results, query, channel, userId} of line 745 has
\* no magnetLink, {magnetLink, torrentTitle, channel, userId} of line 844 no
\* results
NoSession == [key |-> NoKey, results |-> <<>>, magnetLink |-> NoId, channel |-> ""]
HasResults(data) == data.magnetLink = NoId

\* Map.prototype.get: the value under key, NoSession (undefined) without one
RECURSIVE Get(_, _)
Get(cache, key) ==
    IF cache = <<>> THEN NoSession
    ELSE IF Head(cache).key = key THEN Head(cache)
    ELSE Get(Tail(cache), key)

\* Map.prototype.set: a new key goes last, a known key keeps its place
Set(cache, data) ==
    IF Get(cache, data.key) = NoSession THEN Append(cache, data)
    ELSE [i \in 1..Len(cache) |-> IF cache[i].key = data.key THEN data ELSE cache[i]]

\* Map.prototype.delete, for the keys of the timers that fire together
Delete(cache, keys) == SelectSeq(cache, LAMBDA data : data.key \notin keys)

\* mutant of Scheduled: the callback is due a tick later
ScheduledLate(ts, key, ttl) == ts \cup {[key |-> key, due |-> now + ttl + 1]}

\* setTimeout(() => this.searchResults.delete(key), ttl), lines 753-755 and
\* 852-854
Scheduled(ts, key, ttl) == ts \cup {[key |-> key, due |-> now + ttl]}

\* mutant of Scanned: the session found is taken out of the cache
ScannedTaken(cache, key) == Delete(cache, {key})

\* the cache after the loop of lines 874-879 found the entry under key: the
\* loop reads the entries and deletes none
Scanned(cache, key) == cache

\* mutant of IsMagnetData: an entry of the channel counts, with or without a
\* magnetLink
IsMagnetDataOfAnyKind(data, channel) == data.channel = channel

\* line 875: data.magnetLink && data.channel === message.channel
IsMagnetData(data, channel) == data.magnetLink # NoId /\ data.channel = channel

\* mutant of FirstMagnet: the channel of the message is not compared
RECURSIVE FirstMagnetAnyChannel(_, _)
FirstMagnetAnyChannel(cache, channel) ==
    IF cache = <<>> THEN NoSession
    ELSE IF Head(cache).magnetLink # NoId THEN Head(cache)
    ELSE FirstMagnetAnyChannel(Tail(cache), channel)

\* lines 873-879: the first entry, in insertion order, with a magnetLink and
\* the channel of the message
RECURSIVE FirstMagnet(_, _)
FirstMagnet(cache, channel) ==
    IF cache = <<>> THEN NoSession
    ELSE IF IsMagnetData(Head(cache), channel) THEN Head(cache)
    ELSE FirstMagnet(Tail(cache), channel)

\* mutant of SelectedIndex: the number typed is used as the index
SelectedIndexUnshifted(n) == n

\* parseInt(message.text.trim()) - 1, line 785
SelectedIndex(n) == n - 1

\* the clock moves on a tick; the timers then due run first (Node runs the
\* expired timers of an event-loop turn before the handlers of that turn)
Tick ==
    LET fired == {t \in timers : t.due <= now + 1} IN
    /\ now < MaxTime
    /\ now' = now + 1
    /\ timers' = timers \ fired
    /\ searchResults' = Delete(searchResults, {t.key : t \in fired})
    /\ ev' = NoEv
    /\ UNCHANGED <<setupVars, registryVars, engine, transportVars, cmdVars, tasks,
                   notifyCalls, searches, selTask, replyTask, stored>>

\* ------------------------------------------------------------- /torrent-search
\* mutant of NoResults: an empty answer is taken for results
NoResultsNever(found) == FALSE

\* line 687: !results || results.length === 0
NoResults(found) == found = 0

\* lines 665-764: TorrentSearchApi.search answers found torrents, or throws
\* (answered = FALSE); the awaits of say and of the search touch no state of
\* the handler, so the command is one slice ending with the session stored
\* under the ts of the results message and its timer set
SearchCommand(query, channel, answered, found) ==
    /\ isEnabled
    /\ searches < MaxSearches
    /\ searches' = searches + 1
    /\ IF query = ""
       THEN /\ ev' = <<"/torrent-search", "usage">>
            /\ UNCHANGED <<searchResults, timers, stored, faults>>
       ELSE IF ~answered
       THEN /\ ev' = <<"/torrent-search", "error">>
            /\ UNCHANGED <<searchResults, timers, stored, faults>>
       ELSE IF NoResults(found)
       THEN /\ ev' = <<"/torrent-search", "nothing found">>
            /\ UNCHANGED <<searchResults, timers, stored, faults>>
       ELSE \E ok \in Outcomes :
            /\ faults' = Spent(ok, TRUE)
            /\ IF ok
               THEN LET key == SearchKey(searches + 1) IN
                    /\ searchResults' = Set(searchResults,
                                            [key |-> key, results |-> Results(found),
                                             magnetLink |-> NoId, channel |-> channel])
                    /\ timers' = Scheduled(timers, key, SearchTTL)
                    /\ stored' = stored \cup {[key |-> key, kind |-> "search", at |-> now]}
                    /\ ev' = <<"/torrent-search", "results", found>>
               ELSE /\ ev' = <<"/torrent-search", "error">>
                    /\ UNCHANGED <<searchResults, timers, stored>>
    /\ UNCHANGED <<setupVars, registryVars, engine, reactions, published, postFailed,
                   cmdVars, tasks, notifyCalls, now, selTask, replyTask>>

\* ------------------------------------------------------------- numeric reply
\* lines 772-803: the user's message j, the number n typed in the thread
\* thread; the session is looked up, the index checked and getMagnet called
\* for the torrent selected (res is what it will answer)
Select(j, thread, n, channel) ==
    LET searchData == Get(searchResults, thread)
        selectedIndex == SelectedIndex(n)
        over(label) == /\ selTask' = [selTask EXCEPT ![j] =
                                         [NoSel EXCEPT !.pc = "done", !.thread = thread,
                                                       !.n = n]]
                       /\ ev' = <<"select">> \o label
    IN
    /\ isEnabled
    /\ selTask[j].pc = "none"
    /\ \A q \in 1..MaxSelects : q < j => selTask[q].pc # "none"
    /\ IF searchData = NoSession
       THEN over(<<"ignored">>) /\ UNCHANGED faults
       ELSE IF ~HasResults(searchData)
       THEN over(<<"threw">>) /\ UNCHANGED faults
       ELSE IF selectedIndex < 0 \/ selectedIndex >= Len(searchData.results)
       THEN over(<<"invalid", Len(searchData.results)>>) /\ UNCHANGED faults
       ELSE \E ok \in Outcomes :
            /\ faults' = Spent(ok, TRUE)
            /\ IF ok
               THEN \E res \in {"link", "null", "threw"} :
                    /\ selTask' = [selTask EXCEPT ![j] =
                          [pc |-> "magnet", thread |-> thread, n |-> n,
                           item |-> searchData.results[selectedIndex + 1],
                           channel |-> channel, res |-> res]]
                    /\ ev' = NoEv
               ELSE over(<<"threw">>)
    /\ UNCHANGED <<setupVars, registryVars, engine, reactions, published, postFailed,
                   cmdVars, tasks, notifyCalls, searchResults, timers, now, searches,
                   replyTask, stored>>

\* lines 803-858: getMagnet is over; with a link the answer is sent and the
\* link stored under the ts of the user's message, with its timer
SelectReturned(j) ==
    LET a == selTask[j]
        over(label) == /\ selTask' = [selTask EXCEPT ![j] = [a EXCEPT !.pc = "done",
                                                                       !.res = ""]]
                       /\ ev' = <<"select">> \o label
    IN
    /\ a.pc = "magnet"
    /\ IF a.res = "threw"
       THEN over(<<"threw">>) /\ UNCHANGED <<searchResults, timers, stored, faults>>
       ELSE IF a.res = "null"
       THEN over(<<"no magnet">>) /\ UNCHANGED <<searchResults, timers, stored, faults>>
       ELSE \E ok \in Outcomes :
            /\ faults' = Spent(ok, TRUE)
            /\ IF ok
               THEN /\ searchResults' = Set(searchResults,
                                            [key |-> MagnetKey(j), results |-> <<>>,
                                             magnetLink |-> MagnetOf(a.item),
                                             channel |-> a.channel])
                    /\ timers' = Scheduled(timers, MagnetKey(j), MagnetTTL)
                    /\ stored' = stored \cup {[key |-> MagnetKey(j), kind |-> "magnet",
                                               at |-> now]}
                    /\ over(<<"retrieved">>)
               ELSE over(<<"threw">>) /\ UNCHANGED <<searchResults, timers, stored>>
    /\ UNCHANGED <<setupVars, registryVars, engine, reactions, published, postFailed,
                   cmdVars, tasks, notifyCalls, now, searches, replyTask>>

\* ------------------------------------------------------------- add reply
\* lines 862-890: the user's message j, 'add', 'add <type>' or 'add <type>
\* <destination>' in a thread of channel; the first magnet session of the
\* channel is taken and the first answer sent
AddReply(j, channel, type, dest) ==
    LET magnetData == FirstMagnet(searchResults, channel) IN
    /\ isEnabled
    /\ replyTask[j].pc = "none"
    /\ \A q \in 1..MaxReplies : q < j => replyTask[q].pc # "none"
    /\ IF magnetData = NoSession
       THEN /\ replyTask' = [replyTask EXCEPT ![j] = [NoReply EXCEPT !.pc = "done"]]
            /\ ev' = <<"add reply", "ignored", channel>>
            /\ UNCHANGED <<searchResults, faults>>
       ELSE \E ok \in Outcomes :
            /\ searchResults' = Scanned(searchResults, magnetData.key)
            /\ faults' = Spent(ok, TRUE)
            /\ replyTask' = [replyTask EXCEPT ![j] =
                  IF ok THEN [pc |-> "said", link |-> magnetData.magnetLink,
                              type |-> type, dest |-> dest, called |-> FALSE]
                  ELSE [NoReply EXCEPT !.pc = "done"]]
            /\ ev' = <<"add reply", IF ok THEN "adding" ELSE "threw", channel>>
    /\ UNCHANGED <<setupVars, registryVars, engine, reactions, published, postFailed,
                   cmdVars, tasks, notifyCalls, timers, now, searches, selTask, stored>>

\* lines 892-909: without an add collaborator the reply says so; otherwise it
\* is called with the link of the session, the type and the destination, and
\* its result answered with 'You'll be notified when it completes!' (an
\* exception reaches the catch of lines 907-909, which logs it: threw);
\* neither trackedTorrents nor torrentMetadata is written
AddReplySaid(j) ==
    LET a == replyTask[j] IN
    /\ a.pc = "said"
    /\ IF ~torrentHandler
       THEN /\ replyTask' = [replyTask EXCEPT ![j] = [NoReply EXCEPT !.pc = "done"]]
            /\ ev' = <<"add reply", "not configured">>
            /\ UNCHANGED engine
       ELSE \E ok \in BOOLEAN :
            /\ engine' = IF ok /\ engine[a.link] < 0
                         THEN [engine EXCEPT ![a.link] = 0] ELSE engine
            /\ replyTask' = [replyTask EXCEPT ![j] =
                  [NoReply EXCEPT !.pc = "done", !.link = a.link, !.called = TRUE]]
            /\ ev' = <<"add reply", IF ok THEN "added" ELSE "threw", a.link>>
    /\ UNCHANGED <<setupVars, registryVars, transportVars, cmdVars, tasks, notifyCalls,
                   searchResults, timers, now, searches, selTask, stored>>

\* ------------------------------------------------------------- magnet link
\* message.ts of the channel message m that holds a magnet link
MagMsg(m) == <<"mag", m>>

\* mutant of AutoAdd: every message with a magnet link is added
AutoAddAlways(env) == TRUE

\* line 928: process.env.SLACK_AUTO_ADD_TORRENTS === 'true' ("" when unset)
AutoAdd(env) == env = "true"

\* the values of SLACK_AUTO_ADD_TORRENTS
EnvValues == {"true", "false", "TRUE", ""}

\* lines 913-944: a channel message with a magnet link (extractMagnetLink
\* finds link); SLACK_AUTO_ADD_TORRENTS is read from the environment.
\* Without auto-add the message gets the magnet reaction, with it the
\* processing reaction; the reaction call is awaited in the listener's try,
\* so a failure of it goes to the catch of line 976
MagnetMessage(m, link, env) ==
    LET autoAdd == AutoAdd(env)
        name == IF autoAdd THEN "hourglass_flowing_sand" ELSE "mag"
    IN
    /\ isEnabled
    /\ magTask[m].pc = "none"
    /\ \A q \in 1..MaxMagnets : q < m => magTask[q].pc # "none"
    /\ \E ok \in AddOutcomes(MagMsg(m), name) :
        /\ reactions' = Reacted(reactions, MagMsg(m), name, ok)
        /\ faults' = Spent(ok, TRUE)
        /\ magTask' = [magTask EXCEPT ![m] =
              [NoMag EXCEPT !.link = link, !.env = env, !.auto = autoAdd,
                            !.pc = IF ~ok THEN "caught"
                                   ELSE IF autoAdd THEN "processing" ELSE "done",
                            !.cause = IF ok THEN "" ELSE "reaction"]]
        /\ ev' = IF ok /\ ~autoAdd THEN <<"magnet", "acknowledged">> ELSE NoEv
    /\ UNCHANGED <<sessionVars, setupVars, registryVars, engine, published, postFailed,
                   addTask, moveTask, tasks, notifyCalls>>

\* lines 947-954: without an add collaborator the listener throws; otherwise
\* the collaborator is called with the link alone
MagnetProcess(m) ==
    LET a == magTask[m] IN
    /\ a.pc = "processing"
    /\ IF ~torrentHandler
       THEN /\ magTask' = [magTask EXCEPT ![m] =
                              [a EXCEPT !.pc = "caught", !.cause = "not configured"]]
            /\ UNCHANGED engine
       ELSE \E ok \in BOOLEAN :
            /\ engine' = IF ok /\ engine[a.link] < 0
                         THEN [engine EXCEPT ![a.link] = 0] ELSE engine
            /\ magTask' = [magTask EXCEPT ![m] =
                  [a EXCEPT !.called = TRUE,
                            !.pc = IF ok THEN "added" ELSE "caught",
                            !.cause = IF ok THEN "" ELSE "collaborator"]]
    /\ ev' = NoEv
    /\ UNCHANGED <<sessionVars, setupVars, registryVars, transportVars,
                   addTask, moveTask, tasks, notifyCalls>>

\* lines 956-961: the processing reaction is removed
MagnetUnreact(m) ==
    LET a == magTask[m] IN
    /\ a.pc = "added"
    /\ \E ok \in RemoveOutcomes(MagMsg(m), "hourglass_flowing_sand") :
        /\ reactions' = Unreacted(reactions, MagMsg(m), "hourglass_flowing_sand", ok)
        /\ faults' = Spent(ok, TRUE)
        /\ magTask' = [magTask EXCEPT ![m] =
              [a EXCEPT !.pc = IF ok THEN "removed" ELSE "caught",
                        !.cause = IF ok THEN "" ELSE "reaction"]]
    /\ ev' = NoEv
    /\ UNCHANGED <<sessionVars, setupVars, registryVars, engine, published, postFailed,
                   addTask, moveTask, tasks, notifyCalls>>

\* lines 963-967: the success reaction is added
MagnetCheck(m) ==
    LET a == magTask[m] IN
    /\ a.pc = "removed"
    /\ \E ok \in AddOutcomes(MagMsg(m), "white_check_mark") :
        /\ reactions' = Reacted(reactions, MagMsg(m), "white_check_mark", ok)
        /\ faults' = Spent(ok, TRUE)
        /\ magTask' = [magTask EXCEPT ![m] =
              [a EXCEPT !.pc = IF ok THEN "checked" ELSE "caught",
                        !.cause = IF ok THEN "" ELSE "reaction"]]
    /\ ev' = NoEv
    /\ UNCHANGED <<sessionVars, setupVars, registryVars, engine, published, postFailed,
                   addTask, moveTask, tasks, notifyCalls>>

\* lines 969-973: the reply in the thread of the message; neither
\* trackedTorrents nor torrentMetadata is written by the listener
MagnetSay(m) ==
    LET a == magTask[m] IN
    /\ a.pc = "checked"
    /\ \E ok \in Outcomes :
        /\ faults' = Spent(ok, TRUE)
        /\ magTask' = [magTask EXCEPT ![m] =
              [a EXCEPT !.pc = IF ok THEN "done" ELSE "caught",
                        !.cause = IF ok THEN "" ELSE "say"]]
        /\ ev' = IF ok THEN <<"magnet", "added", a.link>> ELSE NoEv
    /\ UNCHANGED <<sessionVars, setupVars, registryVars, engine, reactions, published,
                   postFailed, addTask, moveTask, tasks, notifyCalls>>

\* lines 975-984: the catch of the listener asks for the error reaction; when
\* that call fails the failure reply of the same try is skipped (lines 989-991)
MagnetCaught(m) ==
    LET a == magTask[m] IN
    /\ a.pc = "caught"
    /\ \E ok \in AddOutcomes(MagMsg(m), "x") :
        /\ reactions' = Reacted(reactions, MagMsg(m), "x", ok)
        /\ faults' = Spent(ok, TRUE)
        /\ magTask' = [magTask EXCEPT ![m] = [a EXCEPT !.pc = IF ok THEN "failing" ELSE "done"]]
        /\ ev' = IF ok THEN NoEv ELSE <<"magnet", "logged", a.cause>>
    /\ UNCHANGED <<sessionVars, setupVars, registryVars, engine, published, postFailed,
                   addTask, moveTask, tasks, notifyCalls>>

\* lines 986-989: the failure reply 'Failed to add torrent: ...'
MagnetFailSay(m) ==
    LET a == magTask[m] IN
    /\ a.pc = "failing"
    /\ \E ok \in Outcomes :
        /\ faults' = Spent(ok, TRUE)
        /\ magTask' = [magTask EXCEPT ![m] = [a EXCEPT !.pc = "done"]]
        /\ ev' = <<"magnet", IF ok THEN "failure reply" ELSE "logged", a.cause>>
    /\ UNCHANGED <<sessionVars, setupVars, registryVars, engine, reactions, published,
                   postFailed, addTask, moveTask, tasks, notifyCalls>>

\* ------------------------------------------------------------- Spec
\* the registry and the notification under /torrent commands and direct
\* progress updates
AddInputs == {<<Id1, "movie">>, <<Id2, "">>}

Next ==
    \/ Initialize
    \/ SetTorrentHandler
    \/ \E id \in Ids : EngineProgress(id, 1000)
    \/ \E r \in Objs, c \in AddInputs :
          AddCommand(r, Link(TRUE, c[1]), c[2], "", "C1")
    \/ \E r \in Objs : AddHandlerReturned(r)
    \/ \E t \in TaskIds, id \in Ids, p \in ProgVals : UpdateTorrentProgress(t, id, p)
    \/ \E t \in TaskIds : NotifyRemoved(t)
    \/ \E t \in TaskIds : NotifyChecked(t)
    \/ \E t \in TaskIds : NotifyTyped(t)
    \/ \E t \in TaskIds : NotifyPosted(t)

Spec == Init /\ [][Next]_vars

\* ------------------------------------------------------------- RegistrySpec
\* the registry under every operation that reaches it: /torrent,
\* /torrent-move, /torrent-clear-cache and progress updates, with a transport
\* that never fails
NextRegistry ==
    \/ Initialize
    \/ SetTorrentHandler
    \/ SetCacheClearHandler
    \/ \E r \in Objs, c \in AddInputs :
          AddCommand(r, Link(TRUE, c[1]), c[2], "", "C1")
    \/ \E r \in Objs : AddHandlerReturned(r)
    \/ \E k \in MoveIds : MoveCommand(k, <<"A">>, "/new")
    \/ ClearCacheCommand("ALL")
    \/ \E t \in TaskIds, id \in Ids, p \in ProgVals : UpdateTorrentProgress(t, id, p)
    \/ \E t \in TaskIds : NotifyRemoved(t)
    \/ \E t \in TaskIds : NotifyChecked(t)
    \/ \E t \in TaskIds : NotifyTyped(t)
    \/ \E t \in TaskIds : NotifyPosted(t)

RegistrySpec == InitReliable /\ [][NextRegistry]_vars

\* ------------------------------------------------------------- AddSpec
\* the /torrent command with well-formed and malformed arguments, with and
\* without the add collaborator
\* the arguments of /torrent: is the link a magnet link, its info hash, the
\* type (lowered) and the destination
TorrentArgs ==
    {<<TRUE, Id1, "movie", "">>, <<TRUE, Id2, "tv", "">>, <<TRUE, Id2, "", "">>,
     <<TRUE, Id1, "movie", "/x">>, <<FALSE, Id1, "movie", "">>,
     <<TRUE, Id1, "bogus", "">>}

NextAdd ==
    \/ Initialize
    \/ SetTorrentHandler
    \/ \E id \in Ids : EngineProgress(id, 1000)
    \/ \E r \in Objs, c \in TorrentArgs :
          AddCommand(r, Link(c[1], c[2]), c[3], c[4], "C1")
    \/ \E r \in Objs : AddHandlerReturned(r)

AddSpec == InitReliable /\ [][NextAdd]_vars

\* ------------------------------------------------------------- CommandSpec
\* every command that validates its arguments, with well-formed and
\* malformed ones
\* the hash arguments of /torrent-location and /torrent-move
HashArgs == {<<>>, <<"A">>, <<"a", "c">>, <<"x">>}

NextCommands ==
    \/ Initialize
    \/ SetTorrentHandler
    \/ \E r \in Objs, c \in TorrentArgs :
          AddCommand(r, Link(c[1], c[2]), c[3], c[4], "C1")
    \/ \E r \in Objs : AddHandlerReturned(r)
    \/ \E hash \in {<<>>, <<"A">>} : LocationCommand(hash)
    \/ \E k \in MoveIds, hash \in {<<>>, <<"A">>}, dest \in {"", "/a"} :
          MoveCommand(k, hash, dest)
    \/ \E query \in {"", "q"} : SearchCommand(query, "C1", TRUE, 1)

CommandSpec == InitReliable /\ [][NextCommands]_vars

\* ------------------------------------------------------------- MoveSpec
\* the resolver and the relocation: /torrent-location, /torrent-move with and
\* without the relocation collaborator, and /torrent-clear-cache
NextMove ==
    \/ Initialize
    \/ SetTorrentHandler
    \/ SetTorrentMoveHandler
    \/ SetCacheClearHandler
    \/ \E r \in Objs, c \in AddInputs :
          AddCommand(r, Link(TRUE, c[1]), c[2], "", "C1")
    \/ \E r \in Objs : AddHandlerReturned(r)
    \/ \E hash \in HashArgs : LocationCommand(hash)
    \/ \E k \in MoveIds, hash \in HashArgs, dest \in {"/a", "/b"} :
          MoveCommand(k, hash, dest)
    \/ \E k \in MoveIds : MoveReturned(k)
    \/ \E arg \in {"", "all", "ALL", "done"} : ClearCacheCommand(arg)

MoveSpec == InitReliable /\ [][NextMove]_vars

\* ------------------------------------------------------------- ResolverSpec
\* the resolver over the registries that /torrent commands build, a job
\* added again included
ResolverObjs == 1..(MaxAdds + 1)
\* hash arguments: empty, matching both ids but for the case, matching the
\* second id only, matching none, longer than an id
Prefixes == {<<>>, <<"A">>, <<"a", "c">>, <<"A", "B">>, <<"x">>, <<"a", "b", "c">>}

NextResolver ==
    \/ Initialize
    \/ SetTorrentHandler
    \/ \E r \in ResolverObjs, c \in AddInputs :
          AddCommand(r, Link(TRUE, c[1]), c[2], "", "C1")
    \/ \E r \in ResolverObjs : AddHandlerReturned(r)
    \/ \E hash \in Prefixes : LocationCommand(hash)

ResolverSpec == InitOf(0, ResolverObjs) /\ [][NextResolver]_vars

\* ------------------------------------------------------------- SessionSpec
\* the conversational flow: search, numeric reply, add reply, and the clock
\* with the timers of the session cache
Channels == {"C1", "C2"}

NextSession ==
    \/ Initialize
    \/ SetTorrentHandler
    \/ \E answered \in BOOLEAN, found \in 0..MaxResults :
          SearchCommand("q", "C1", answered, found)
    \/ \E j \in 1..MaxSelects, s \in 1..MaxSearches, n \in 1..(MaxResults + 1) :
          Select(j, SearchKey(s), n, "C1")
    \/ \E j \in 1..MaxSelects : SelectReturned(j)
    \/ \E j \in 1..MaxReplies, c \in Channels : AddReply(j, c, "movie", "")
    \/ \E j \in 1..MaxReplies : AddReplySaid(j)
    \/ Tick

SessionSpec == InitReliable /\ [][NextSession]_vars

\* ------------------------------------------------------------- MagnetSpec
\* the magnet-link listener with and without auto-add, over a transport of
\* which MaxFaults calls may fail
NextMagnet ==
    \/ Initialize
    \/ SetTorrentHandler
    \/ \E m \in 1..MaxMagnets, id \in Ids, env \in EnvValues : MagnetMessage(m, id, env)
    \/ \E m \in 1..MaxMagnets : MagnetProcess(m)
    \/ \E m \in 1..MaxMagnets : MagnetUnreact(m)
    \/ \E m \in 1..MaxMagnets : MagnetCheck(m)
    \/ \E m \in 1..MaxMagnets : MagnetSay(m)
    \/ \E m \in 1..MaxMagnets : MagnetCaught(m)
    \/ \E m \in 1..MaxMagnets : MagnetFailSay(m)

MagnetSpec == Init /\ [][NextMagnet]_vars

\* ------------------------------------------------------------- SearchSpec
\* /torrent-search with every answer of the provider, and the numeric replies
\* that read the session it stores
NextSearch ==
    \/ Initialize
    \/ \E query \in {"", "q"}, c \in Channels, answered \in BOOLEAN, found \in 0..MaxResults :
          SearchCommand(query, c, answered, found)
    \/ \E j \in 1..MaxSelects, s \in 1..MaxSearches, n \in 1..MaxResults :
          Select(j, SearchKey(s), n, "C1")
    \/ \E j \in 1..MaxSelects : SelectReturned(j)
    \/ Tick

SearchSpec == InitReliable /\ [][NextSearch]_vars

\* ------------------------------------------------------------- ChannelSpec
\* the conversational flow over two channels: the listeners take the channel
\* from the message they are given and never compare it with the channel of
\* the search
NextChannels ==
    \/ Initialize
    \/ SetTorrentHandler
    \/ SearchCommand("q", "C1", TRUE, MaxResults)
    \/ \E j \in 1..MaxSelects, s \in 1..MaxSearches, n \in 1..MaxResults, c \in Channels :
          Select(j, SearchKey(s), n, c)
    \/ \E j \in 1..MaxSelects : SelectReturned(j)
    \/ \E j \in 1..MaxReplies, c \in Channels : AddReply(j, c, "", "")
    \/ \E j \in 1..MaxReplies : AddReplySaid(j)
    \/ Tick

ChannelSpec == InitReliable /\ [][NextChannels]_vars

\* ------------------------------------------------------------- LookupSpec
\* the lookups that may miss: /torrent-location and /torrent-move with
\* prefixes that match a key or none, and numeric replies in the thread of a
\* search before it was made, while its session lives and after it expired
NextLookup ==
    \/ Initialize
    \/ SetTorrentHandler
    \/ SetTorrentMoveHandler
    \/ AddCommand(1, Link(TRUE, Id1), "movie", "", "C1")
    \/ AddHandlerReturned(1)
    \/ \E hash \in HashArgs : LocationCommand(hash)
    \/ \E k \in MoveIds, hash \in HashArgs : MoveCommand(k, hash, "/a")
    \/ \E k \in MoveIds : MoveReturned(k)
    \/ SearchCommand("q", "C1", TRUE, 1)
    \/ \E j \in 1..MaxSelects : Select(j, SearchKey(1), 1, "C1")
    \/ \E j \in 1..MaxSelects : SelectReturned(j)
    \/ Tick

LookupSpec == InitOf(0, {1}) /\ [][NextLookup]_vars

\* ------------------------------------------------------------- KindSpec
\* the two kinds of entries of the session cache: numeric replies in the
\* thread of the search and in the thread of an earlier numeric reply (the
\* key of the magnet session it stored), add replies in both channels
NextKinds ==
    \/ Initialize
    \/ SetTorrentHandler
    \/ SearchCommand("q", "C1", TRUE, MaxResults)
    \/ \E j \in 1..MaxSelects, thread \in {SearchKey(1), SelKey(1)}, n \in 1..MaxResults :
          Select(j, thread, n, "C1")
    \/ \E j \in 1..MaxSelects : SelectReturned(j)
    \/ \E j \in 1..MaxReplies, c \in Channels : AddReply(j, c, "movie", "")
    \/ \E j \in 1..MaxReplies : AddReplySaid(j)
    \/ Tick

KindSpec == InitReliable /\ [][NextKinds]_vars

\* ------------------------------------------------------------- ListSpec
\* /torrent-list over the registries that /torrent and /torrent-move build and
\* a session cache that /torrent-search fills; the list collaborator answers
\* any array of jobs, registered or not, in any order
ListInputs == {<<>>, <<Id1>>, <<Id2>>, <<Id1, Id2>>, <<Id2, Id1>>, <<Id1, Id1>>}

NextList ==
    \/ Initialize
    \/ SetTorrentHandler
    \/ SetTorrentListHandler
    \/ \E r \in Objs, c \in AddInputs :
          AddCommand(r, Link(TRUE, c[1]), c[2], "", "C1")
    \/ \E r \in Objs : AddHandlerReturned(r)
    \/ \E k \in MoveIds, hash \in {<<"A">>, <<"a", "c">>} : MoveCommand(k, hash, "/new")
    \/ SearchCommand("q", "C1", TRUE, 1)
    \/ \E answered \in BOOLEAN, torrents \in ListInputs : ListCommand(answered, torrents)

ListSpec == InitReliable /\ [][NextList]_vars

\* ------------------------------------------------------------- StopSpec
\* the life cycle: initialize, commands while the app runs, stop, and the
\* server's progress calls, which go on after stop (the server calls
\* monitorProgress and updateTorrentProgress itself, not through the app)
\* the app delivers a /torrent command only while it runs
DeliveredAddCommand(r) ==
    /\ appRunning
    /\ AddCommand(r, Link(TRUE, Id1), "movie", "", "C1")

NextStop ==
    \/ Initialize
    \/ SetTorrentHandler
    \/ Stop
    \/ \E id \in Ids : EngineProgress(id, 1000)
    \/ \E r \in Objs : DeliveredAddCommand(r)
    \/ \E r \in Objs : AddHandlerReturned(r)
    \/ \E t \in TaskIds : MonitorProgress(t)
    \/ \E t \in TaskIds, id \in Ids, p \in ProgVals : UpdateTorrentProgress(t, id, p)
    \/ \E t \in TaskIds : NotifyRemoved(t)
    \/ \E t \in TaskIds : NotifyChecked(t)
    \/ \E t \in TaskIds : NotifyTyped(t)
    \/ \E t \in TaskIds : NotifyPosted(t)

StopSpec == InitReliable /\ [][NextStop]_vars

\* ------------------------------------------------------------- FairTaskSpec
\* the tasks that await: /torrent and /torrent-move commands and
\* monitorProgress calls over the engine's list, interleaved; every awaited
\* call of every task eventually returns or throws
NextTasks ==
    \/ Initialize
    \/ SetTorrentHandler
    \/ SetTorrentMoveHandler
    \/ \E id \in Ids : EngineProgress(id, 1000)
    \/ \E r \in Objs, c \in AddInputs :
          AddCommand(r, Link(TRUE, c[1]), c[2], "", "C1")
    \/ \E r \in Objs : AddHandlerReturned(r)
    \/ MoveCommand(1, <<"A">>, "/new")
    \/ MoveReturned(1)
    \/ \E t \in TaskIds : MonitorProgress(t)
    \/ \E t \in TaskIds : NotifyRemoved(t)
    \/ \E t \in TaskIds : NotifyChecked(t)
    \/ \E t \in TaskIds : NotifyTyped(t)
    \/ \E t \in TaskIds : NotifyPosted(t)

FairTaskSpec ==
    /\ InitReliable
    /\ [][NextTasks]_vars
    /\ \A r \in Objs : WF_vars(AddHandlerReturned(r))
    /\ \A k \in MoveIds : WF_vars(MoveReturned(k))
    /\ \A t \in TaskIds : WF_vars(NotifyRemoved(t))
    /\ \A t \in TaskIds : WF_vars(NotifyChecked(t))
    /\ \A t \in TaskIds : WF_vars(NotifyTyped(t))
    /\ \A t \in TaskIds : WF_vars(NotifyPosted(t))

\* ------------------------------------------------------------- FairSpec
\* the periodic driver: the engine downloads, monitorProgress is called again
\* and again, every awaited call returns, and the transport never fails
NextMonitor ==
    \/ Initialize
    \/ SetTorrentHandler
    \/ \E id \in Ids : EngineProgress(id, 1000)
    \/ \E r \in Objs, c \in AddInputs :
          AddCommand(r, Link(TRUE, c[1]), c[2], "", "C1")
    \/ \E r \in Objs : AddHandlerReturned(r)
    \/ \E t \in TaskIds : MonitorProgress(t)
    \/ \E t \in TaskIds : NotifyRemoved(t)
    \/ \E t \in TaskIds : NotifyChecked(t)
    \/ \E t \in TaskIds : NotifyTyped(t)
    \/ \E t \in TaskIds : NotifyPosted(t)

FairSpec ==
    /\ InitReliable
    /\ [][NextMonitor]_vars
    /\ WF_vars(\E t \in TaskIds : MonitorProgress(t))
    /\ WF_vars(\E r \in Objs : AddHandlerReturned(r))
    /\ WF_vars(\E t \in TaskIds : NotifyRemoved(t))
    /\ WF_vars(\E t \in TaskIds : NotifyChecked(t))
    /\ WF_vars(\E t \in TaskIds : NotifyTyped(t))
    /\ WF_vars(\E t \in TaskIds : NotifyPosted(t))

\* ------------------------------------------------------------- ProgressSpec
\* monitor invocations and direct progress updates interleaving with each
\* other and with the /torrent command, over a transport that never fails
NextProgress ==
    \/ Initialize
    \/ SetTorrentHandler
    \/ \E id \in Ids : EngineProgress(id, 1000)
    \/ \E r \in Objs, c \in AddInputs :
          AddCommand(r, Link(TRUE, c[1]), c[2], "", "C1")
    \/ \E r \in Objs : AddHandlerReturned(r)
    \/ \E t \in TaskIds : MonitorProgress(t)
    \/ \E t \in TaskIds, id \in Ids, p \in ProgVals : UpdateTorrentProgress(t, id, p)
    \/ \E t \in TaskIds : NotifyRemoved(t)
    \/ \E t \in TaskIds : NotifyChecked(t)
    \/ \E t \in TaskIds : NotifyTyped(t)
    \/ \E t \in TaskIds : NotifyPosted(t)

ProgressSpec == InitReliable /\ [][NextProgress]_vars

\* ------------------------------------------------------------- MonitorSpec
\* monitorProgress over an engine whose torrents advance by fractions, before
\* and after the bot is enabled, with a transport that never fails
NextFractions ==
    \/ Initialize
    \/ SetTorrentHandler
    \/ \E id \in Ids, f \in FracVals : EngineProgress(id, f)
    \/ \E r \in Objs, c \in AddInputs :
          AddCommand(r, Link(TRUE, c[1]), c[2], "", "C1")
    \/ \E r \in Objs : AddHandlerReturned(r)
    \/ \E t \in TaskIds : MonitorProgress(t)
    \/ \E t \in TaskIds : NotifyRemoved(t)
    \/ \E t \in TaskIds : NotifyChecked(t)
    \/ \E t \in TaskIds : NotifyTyped(t)
    \/ \E t \in TaskIds : NotifyPosted(t)

MonitorSpec == InitReliable /\ [][NextFractions]_vars

\* ------------------------------------------------------------- FairMagnetSpec
\* the magnet-link listener with auto-add on, next to the /torrent command,
\* under the periodic driver and a transport that never fails
NextAutoAdd ==
    \/ Initialize
    \/ SetTorrentHandler
    \/ EngineProgress(Id1, 1000)
    \/ \E r \in Objs : AddCommand(r, Link(TRUE, Id1), "movie", "", "C1")
    \/ \E r \in Objs : AddHandlerReturned(r)
    \/ \E t \in TaskIds : MonitorProgress(t)
    \/ \E t \in TaskIds : NotifyRemoved(t)
    \/ \E t \in TaskIds : NotifyChecked(t)
    \/ \E t \in TaskIds : NotifyTyped(t)
    \/ \E t \in TaskIds : NotifyPosted(t)
    \/ \E m \in 1..MaxMagnets : MagnetMessage(m, Id1, "true")
    \/ \E m \in 1..MaxMagnets : MagnetProcess(m)
    \/ \E m \in 1..MaxMagnets : MagnetUnreact(m)
    \/ \E m \in 1..MaxMagnets : MagnetCheck(m)
    \/ \E m \in 1..MaxMagnets : MagnetSay(m)
    \/ \E m \in 1..MaxMagnets : MagnetCaught(m)
    \/ \E m \in 1..MaxMagnets : MagnetFailSay(m)

FairMagnetSpec ==
    /\ InitReliable
    /\ [][NextAutoAdd]_vars
    /\ WF_vars(\E t \in TaskIds : MonitorProgress(t))
    /\ WF_vars(\E r \in Objs : AddHandlerReturned(r))
    /\ WF_vars(\E t \in TaskIds : NotifyRemoved(t))
    /\ WF_vars(\E t \in TaskIds : NotifyChecked(t))
    /\ WF_vars(\E t \in TaskIds : NotifyTyped(t))
    /\ WF_vars(\E t \in TaskIds : NotifyPosted(t))
    /\ WF_vars(\E m \in 1..MaxMagnets : MagnetProcess(m))
    /\ WF_vars(\E m \in 1..MaxMagnets : MagnetUnreact(m))
    /\ WF_vars(\E m \in 1..MaxMagnets : MagnetCheck(m))
    /\ WF_vars(\E m \in 1..MaxMagnets : MagnetSay(m))
    /\ WF_vars(\E m \in 1..MaxMagnets : MagnetCaught(m))
    /\ WF_vars(\E m \in 1..MaxMagnets : MagnetFailSay(m))

\* ------------------------------------------------------------- claims
\* object r has been registered
Live(r) == metadata[r] # NoMeta
\* the entry the registry holds for id is notified
Notified(id) == trackedTorrents[id] # 0 /\ tracked[trackedTorrents[id]].notified
\* a progress task is inside the notification of object r
Notifying(r) == \E t \in TaskIds : tasks[t].obj = r /\ tasks[t].pc # "idle"

\* C1: for a registered entry, the completion notification starts in exactly
\* the steps that take its recorded progress from below 100 to 100 or more
\* while notified is still false, and so at most once; every other update,
\* and every later one with progress >= 100, starts nothing.
C1_NotifiesOnceAtFirstCompletion ==
    [][\A r \in Objs : Live(r) =>
          /\ notifyCalls'[r] <= 1
          /\ notifyCalls'[r] # notifyCalls[r]
               <=> /\ tracked[r].progress < 100
                   /\ tracked'[r].progress >= 100
                   /\ ~tracked[r].notified]_vars

\* C1 witness: an entry was notified once and its progress then fell below
\* 100, so that the next report of 100 crosses the threshold again
C1_Witness ==
    \E r \in Objs : notifyCalls[r] = 1 /\ tracked[r].notified /\ tracked[r].progress < 100

\* C4: a direct updateTorrentProgress on an id the registry does not hold
\* changes no entry, creates none, starts no notification and no task, and
\* makes no transport call.
C4_UnknownIdIsIgnored ==
    [][\A id \in Ids :
          (ev' = <<"updateTorrentProgress", id>> /\ trackedTorrents[id] = 0)
          => UNCHANGED <<registryVars, transportVars, tasks, notifyCalls>>]_vars

\* C4 witness: the last slice was an update on an unregistered id while
\* another id is registered and the bot enabled
C4_Witness ==
    \E id \in Ids, other \in Ids :
        /\ ev = <<"updateTorrentProgress", id>>
        /\ trackedTorrents[id] = 0
        /\ trackedTorrents[other] # 0
        /\ tracked[trackedTorrents[other]].progress < 100
        /\ isEnabled

\* C5 as claimed: for every job id, once the entry is notified it is notified
\* in every later state, re-adding the id included.
C5_NotifiedTerminalPerId ==
    [][\A id \in Ids : Notified(id) => Notified(id)']_vars

\* C5 amended: a tracked entry starts with notified false and keeps notified
\* true once set; the entry of an id goes from notified to not notified only
\* in a step that registers the id anew (a fresh entry replaces it).
C5_NotifiedTerminalPerRegistration ==
    [][/\ \A r \in Objs : /\ tracked[r].notified => tracked'[r].notified
                          /\ (~Live(r) /\ Live(r)') => ~tracked'[r].notified
       /\ \A id \in Ids : (Notified(id) /\ ~Notified(id)')
             => /\ trackedTorrents'[id] # trackedTorrents[id]
                /\ ~Live(trackedTorrents'[id])]_vars

\* C5 witness: a notified entry has since been moved and cleared from the
\* engine and is still notified
C5_Witness ==
    \E id \in Ids :
        /\ Notified(id)
        /\ metadata[trackedTorrents[id]].destination = "/new"
        /\ engine[id] = -1
        /\ \A t \in TaskIds : tasks[t].pc = "idle"

\* C6: the notification makes its calls in the order remove hourglass, add
\* white_check_mark, add the reaction of the type, post the message; the
\* task goes from each call to the next whatever the call's outcome, each
\* successful call has its effect, and the post is always attempted.
C6_NotificationStepsInOrder ==
    [][\A t \in TaskIds :
        LET a == tasks[t]
            b == tasks'[t]
            m == metadata[a.obj]
        IN  /\ (a.pc = "rmHourglass" /\ b # a)
                 => /\ b.pc = "addCheck" /\ b.obj = a.obj
                    /\ b.ok => <<m.messageTs, "white_check_mark">> \in reactions'
            /\ (a.pc = "addCheck" /\ b # a)
                 => /\ b.pc = "addEmoji" /\ b.obj = a.obj
                    /\ b.ok => <<m.messageTs, TypeEmoji(m.type)>> \in reactions'
            /\ (a.pc = "addEmoji" /\ b # a)
                 => /\ b.pc = "post" /\ b.obj = a.obj
                    /\ IF b.ok
                       THEN /\ Len(published') = Len(published) + 1
                            /\ published'[Len(published')].obj = a.obj
                            /\ published'[Len(published')].thread = m.messageTs
                            /\ published'[Len(published')].channel = m.channel
                       ELSE published' = published /\ a.obj \in postFailed'
            /\ (b.pc = "rmHourglass" /\ b # a)
                 => /\ a.pc \in {"idle", "post"}
                    /\ <<metadata[b.obj].messageTs, "hourglass_flowing_sand">>
                          \in reactions' <=> ~b.ok /\
                             <<metadata[b.obj].messageTs, "hourglass_flowing_sand">>
                                \in reactions]_vars

\* C6 witness: the completion message is posted although the success
\* reaction failed
C6_Witness ==
    \E t \in TaskIds :
        /\ tasks[t].pc = "post" /\ tasks[t].ok
        /\ <<metadata[tasks[t].obj].messageTs, "white_check_mark">> \notin reactions
        /\ <<metadata[tasks[t].obj].messageTs, TypeEmoji(metadata[tasks[t].obj].type)>>
              \in reactions
        /\ \E i \in 1..Len(published) : published[i].obj = tasks[t].obj

\* C7: a failed chat.postMessage leaves neither updateTorrentProgress nor its
\* caller by an exception; the entry stays notified and no later step starts
\* its notification or posts its message again.
C7_FailedPostIsFinal ==
    /\ [](\A t \in TaskIds : tasks[t].pc # "threw")
    /\ [][\A r \in postFailed :
            /\ tracked'[r].notified
            /\ notifyCalls'[r] = notifyCalls[r]
            /\ r \in postFailed'
            /\ \A i \in 1..Len(published') : published'[i].obj # r]_vars

\* C7 witness: the post of an entry failed, its task is over, and the last
\* slice was a further update of that entry at 100 or more
C7_Witness ==
    \E id \in Ids :
        /\ trackedTorrents[id] \in postFailed
        /\ ev = <<"updateTorrentProgress", id>>
        /\ tracked[trackedTorrents[id]].progress >= 100
        /\ \A t \in TaskIds : tasks[t].pc = "idle"

\* the message of a completion notification of job id has been posted
Posted(id) ==
    \E i \in 1..Len(published) : metadata[published[i].obj].infoHash = id
\* the session cache answers for key
Retrievable(key) == Get(searchResults, key) # NoSession

\* C2 as claimed: with the monitor called again and again, every awaited call
\* returning and a transport that never fails, every job of the engine whose
\* progress reaches 100% eventually has its completion message posted.
C2_CompletedJobIsEventuallyNotified ==
    \A id \in Ids : (engine[id] = 1000) ~> Posted(id)

\* C3 as claimed: when the add collaborator called by an 'add' reply succeeds,
\* the job it returns is registered: the registry holds an entry for its id,
\* not notified, with metadata.
C3_AddReplyRegistersJob ==
    [][\A id \in Ids :
          ev' = <<"add reply", "added", id>>
          => /\ trackedTorrents'[id] # 0
             /\ ~tracked'[trackedTorrents'[id]].notified
             /\ torrentMetadata'[id] # 0]_vars

\* C8: a session stored at tick T is retrievable exactly while the clock is
\* before T + TTL, the TTL being 10 minutes (two ticks) for a search session
\* and 5 minutes (one tick) for a magnet session; the deadline of a pending
\* timer is the one set at the store, whatever use was made of the session.
C8_SessionLivesForItsTTL ==
    /\ \A c \in stored :
          Retrievable(c.key) <=> now < c.at + (IF c.kind = "search" THEN 2 ELSE 1)
    /\ \A t \in timers : \E c \in stored :
          c.key = t.key /\ t.due = c.at + (IF c.kind = "search" THEN 2 ELSE 1)

\* C8 witness: five minutes after both were stored, a magnet session that an
\* add reply has used is gone and the search session it was selected from is
\* still retrievable
C8_Witness ==
    \E m \in stored, s \in stored :
        /\ m.kind = "magnet" /\ s.kind = "search"
        /\ now = m.at + 1 /\ now = s.at + 1
        /\ ~Retrievable(m.key) /\ Retrievable(s.key)
        /\ \E j \in 1..MaxReplies :
              replyTask[j].called /\ replyTask[j].link = MagnetOf(Item(1))

\* C9: a session leaves the cache only in a step of the clock (its timer
\* fires); the search session is still there after a numeric reply selected
\* from it, the magnet session after an add reply took its link, and every
\* add reply that found a magnet session calls the add collaborator, when one
\* is set, with the link of that session.
C9_UseKeepsSession ==
    [][/\ now' = now
            => \A i \in 1..Len(searchResults) :
                  Get(searchResults', searchResults[i].key) = searchResults[i]
       /\ \A j \in 1..MaxSelects :
            (selTask[j].pc = "none" /\ selTask'[j].pc = "magnet")
            => Get(searchResults', selTask'[j].thread) # NoSession
       /\ \A j \in 1..MaxReplies :
            /\ (replyTask[j].pc = "none" /\ replyTask'[j].pc = "said")
               => \E i \in 1..Len(searchResults') :
                     searchResults'[i].magnetLink = replyTask'[j].link
            /\ (replyTask[j].pc = "said" /\ replyTask'[j].pc = "done" /\ torrentHandler)
               => /\ replyTask'[j].called
                  /\ replyTask'[j].link = replyTask[j].link
                  /\ ev' \in {<<"add reply", "added", replyTask[j].link>>,
                              <<"add reply", "threw", replyTask[j].link>>}]_vars

\* C9 witness: two add replies have called the add collaborator with the same
\* link and the magnet session with that link is still in the cache
C9_Witness ==
    /\ replyTask[1].called /\ replyTask[2].called
    /\ replyTask[1].link = replyTask[2].link
    /\ \E i \in 1..Len(searchResults) : searchResults[i].magnetLink = replyTask[1].link

\* C10: a numeric reply n in the thread of a search session with k results
\* starts the magnet lookup of result number n, counted from 1, when n <= k;
\* when n > k it answers 'invalid selection', starts no lookup and stores
\* nothing.  A magnet session is stored only by the reply whose lookup
\* returned, with the link of the result it selected.
C10_NumericReplySelectsNth ==
    [][/\ \A j \in 1..MaxSelects :
            LET a == selTask[j]
                b == selTask'[j]
                d == Get(searchResults, b.thread)
                k == Len(d.results)
            IN  (a.pc = "none" /\ b.pc # "none" /\ d # NoSession /\ HasResults(d))
                => IF b.n <= k
                   THEN /\ b.pc = "magnet"
                        /\ b.item = Item(b.n)
                        /\ d.results[b.n] = b.item
                   ELSE /\ b.pc = "done"
                        /\ ev' = <<"select", "invalid", k>>
                        /\ UNCHANGED <<searchResults, timers, stored>>
       /\ \A j \in 1..MaxSelects :
            (~Retrievable(SelKey(j)) /\ Retrievable(SelKey(j))')
            => /\ selTask[j].pc = "magnet"
               /\ Get(searchResults', SelKey(j)).magnetLink = MagnetOf(selTask[j].item)]_vars

\* C10 witness: in the thread of a search with two results, one reply typed 3
\* and stored nothing, another typed 2 and the link of the second result is
\* stored for it
C10_Witness ==
    \E i \in 1..MaxSelects, j \in 1..MaxSelects :
        /\ Len(Get(searchResults, selTask[i].thread).results) = 2
        /\ selTask[i].pc = "done" /\ selTask[i].n = 3
        /\ ~Retrievable(SelKey(i))
        /\ selTask[j].pc = "done" /\ selTask[j].n = 2
        /\ selTask[j].thread = selTask[i].thread
        /\ Get(searchResults, SelKey(j)).magnetLink = MagnetOf(Item(2))

\* C11 as claimed: every magnet session of the cache is stored under the ts of
\* the bot's own 'Magnet Link Retrieved' answer to a numeric reply, with the
\* channel of that reply.
C11_MagnetSessionKeyedByOwnAnswer ==
    \A i \in 1..Len(searchResults) :
        searchResults[i].magnetLink # NoId
        => \E j \in 1..MaxSelects :
              /\ searchResults[i].key = RetrievedKey(j)
              /\ searchResults[i].channel = selTask[j].channel

\* C11 amended: every magnet session of the cache is stored under the ts of
\* the user's numeric reply that selected it (message.ts), with the channel
\* of that reply and the link of the result it selected.
C11_MagnetSessionKeyedBySelection ==
    \A i \in 1..Len(searchResults) :
        searchResults[i].magnetLink # NoId
        => \E j \in 1..MaxSelects :
              /\ searchResults[i].key = SelKey(j)
              /\ selTask[j].pc = "done"
              /\ searchResults[i].channel = selTask[j].channel
              /\ searchResults[i].magnetLink = MagnetOf(selTask[j].item)

\* C11 witness: two magnet sessions of different channels and different
\* links are in the cache
C11_Witness ==
    \E i \in 1..Len(searchResults), k \in 1..Len(searchResults) :
        /\ searchResults[i].magnetLink # NoId /\ searchResults[k].magnetLink # NoId
        /\ searchResults[i].channel # searchResults[k].channel
        /\ searchResults[i].magnetLink # searchResults[k].magnetLink

\* the places in the cache of the magnet sessions of channel c
MagnetsOf(c) ==
    {i \in 1..Len(searchResults) :
        searchResults[i].magnetLink # NoId /\ searchResults[i].channel = c}

\* C12: an add reply in channel c goes on with the link of the magnet session
\* of c that comes first in the cache, sessions of other channels and search
\* sessions before it notwithstanding; with no magnet session of c in the
\* cache the reply is ignored: its task ends there, the add collaborator is
\* not called and the engine is left alone.
C12_AddReplyUsesFirstOfChannel ==
    [][\A j \in 1..MaxReplies :
          (replyTask[j].pc = "none" /\ replyTask'[j].pc # "none")
          => \E c \in Channels :
                IF MagnetsOf(c) = {}
                THEN /\ ev' = <<"add reply", "ignored", c>>
                     /\ replyTask'[j].pc = "done" /\ ~replyTask'[j].called
                     /\ engine' = engine
                ELSE LET first == CHOOSE i \in MagnetsOf(c) :
                                     \A k \in MagnetsOf(c) : i <= k
                     IN  /\ ev' = <<"add reply", "adding", c>>
                         /\ replyTask'[j].pc = "said"
                         /\ replyTask'[j].link = searchResults[first].magnetLink]_vars

\* C12 witness: behind the search session the cache holds two magnet sessions
\* of the channel of the add reply, with different links, and the reply goes
\* on with the link of the older of the two
C12_Witness ==
    \E j \in 1..MaxReplies, c \in Channels :
        /\ ev = <<"add reply", "adding", c>>
        /\ replyTask[j].pc = "said"
        /\ \E i \in MagnetsOf(c), k \in MagnetsOf(c) :
              /\ 1 < i /\ i < k
              /\ searchResults[i].magnetLink # searchResults[k].magnetLink
              /\ replyTask[j].link = searchResults[i].magnetLink

\* the reports of the commands that were given malformed arguments
UsageReports ==
    {<<"/torrent", "usage", "link">>, <<"/torrent", "usage", "type">>,
     <<"/torrent-location", "usage">>, <<"/torrent-move", "usage">>,
     <<"/torrent-search", "usage">>}

\* C13: a command answered with its usage (/torrent with a link that is no
\* magnet link or a type other than movie and tv, /torrent-location without a
\* hash, /torrent-move without a hash or a destination, /torrent-search
\* without a query) changes neither the registry nor the session cache nor
\* the engine, makes no transport call beyond its answer and starts no
\* collaborator call; the add collaborator is never called with another type
\* than movie, tv or none.
C13_MalformedInputOnlyAnswersUsage ==
    [][/\ ev' \in UsageReports
            => /\ UNCHANGED <<registryVars, engine, transportVars>>
               /\ UNCHANGED <<searchResults, timers, stored>>
               /\ \A r \in Objs : addTask'[r].pc = "handler" => addTask[r] = addTask'[r]
               /\ \A k \in MoveIds : moveTask'[k].pc = "mover" => moveTask[k] = moveTask'[k]
       /\ \A r \in Objs :
            addTask'[r].pc = "handler" => addTask'[r].type \in {"", "movie", "tv"}]_vars

\* C13 witness: with a job registered and a search session in the cache, the
\* last command was a /torrent with a type that is neither movie nor tv
C13_Witness ==
    /\ ev = <<"/torrent", "usage", "type">>
    /\ \E id \in Ids : trackedTorrents[id] # 0
    /\ searchResults # <<>>

\* C14: a /torrent command whose add collaborator threw, or that found none
\* set, is answered with the error (the message of the exception) and leaves
\* the registry as it was; the registry changes only in the step in which a
\* command resumes from a collaborator call that succeeded.
C14_RegisteredOnlyWhenAccepted ==
    [][/\ \A r \in Objs :
            (addTask[r].pc = "handler" /\ ~addTask[r].ok /\ addTask'[r] # addTask[r])
            => /\ ev' = <<"/torrent", "error", "collaborator">>
               /\ UNCHANGED registryVars
       /\ ev' = <<"/torrent", "error", "not configured">>
            => UNCHANGED <<registryVars, engine>>
       /\ registryVars' # registryVars
            => \E r \in Objs : /\ addTask[r].pc = "handler" /\ addTask[r].ok
                                /\ addTask'[r].pc = "done"
                                /\ trackedTorrents'[addTask[r].id] = r]_vars

\* C14 witness: the last /torrent command was answered with the error of its
\* collaborator, after another had registered a job; the other id has no entry
C14_Witness ==
    /\ ev = <<"/torrent", "error", "collaborator">>
    /\ \E id \in Ids, other \in Ids :
          /\ trackedTorrents[id] # 0
          /\ trackedTorrents[other] = 0 /\ torrentMetadata[other] = 0

\* C15: the step in which a /torrent command registers its job records as
\* destination the one the command was given, or without one the default of
\* its type (the movies path for movie, the tv path for tv, the generic path
\* without a type), and as type movie, tv or unknown.
C15_DestinationExplicitOrDefault ==
    [][\A r \in Objs :
          LET a == addTask[r]
              m == metadata'[r]
          IN  (a.pc = "handler" /\ a.ok /\ addTask'[r].pc = "done")
              => /\ torrentMetadata'[a.id] = r
                 /\ m.destination =
                       IF a.dest # "" THEN a.dest
                       ELSE IF a.type = "movie" THEN "/app/downloads/movies"
                       ELSE IF a.type = "tv" THEN "/app/downloads/tv"
                       ELSE "/downloads"
                 /\ m.type = (IF a.type = "" THEN "unknown" ELSE a.type)
                 /\ m.type \in {"movie", "tv", "unknown"}]_vars

\* C15 witness: a movie is registered with the destination its command gave
\* and a tv show with the default of its type
C15_Witness ==
    \E r \in Objs, q \in Objs :
        /\ metadata[r].type = "movie" /\ metadata[r].destination = "/x"
        /\ metadata[q].type = "tv" /\ metadata[q].destination = "/app/downloads/tv"

\* C16 as claimed: a job registered by a /torrent command that gave no
\* destination has the destination /media/movies when its type is movie,
\* /media/tv when it is tv, and /downloads without a type.
C16_DocumentedDefaultLocations ==
    [][\A r \in Objs :
          LET a == addTask[r]
          IN  (a.pc = "handler" /\ a.ok /\ addTask'[r].pc = "done" /\ a.dest = "")
              => metadata'[r].destination =
                    IF a.type = "movie" THEN "/media/movies"
                    ELSE IF a.type = "tv" THEN "/media/tv"
                    ELSE "/downloads"]_vars

\* C17: a /torrent-move command whose prefix resolves to a job has set the
\* destination of that job in the registry when the relocation collaborator
\* is called; the step in which the collaborator is over, whatever it gave
\* (complete, partial, scheduled, nothing, an exception), leaves the registry
\* as it is; after an exception, and without a collaborator, the reply
\* reports a location update of the metadata only.
C17_MoveSetsDestinationFirst ==
    [][\A k \in MoveIds :
          LET t == moveTask[k]
              u == moveTask'[k]
          IN  /\ (t.pc = "none" /\ u.pc = "mover")
                 => metadata'[torrentMetadata[u.id]].destination = u.dest
              /\ (t.pc = "mover" /\ u.pc = "done")
                 => /\ metadata' = metadata
                    /\ torrentMetadata' = torrentMetadata
                    /\ t.res \in {"threw", "undefined"}
                       => ev' = <<"/torrent-move", "location updated", t.dest>>
              /\ (t.pc = "none" /\ u.pc = "done" /\ Len(ev') = 3)
                 => /\ ~torrentMoveHandler
                    /\ ev'[2] = "location updated"
                    /\ \E id \in Ids :
                          /\ torrentMetadata[id] # 0
                          /\ metadata'[torrentMetadata[id]].destination = ev'[3]]_vars

\* C17 witness: the relocation collaborator threw, the reply reports the
\* location update and the registry holds the new destination
C17_Witness ==
    /\ ev = <<"/torrent-move", "location updated", "/a">>
    /\ torrentMoveHandler
    /\ \E id \in Ids : /\ torrentMetadata[id] # 0
                        /\ metadata[torrentMetadata[id]].destination = "/a"

\* C18: two /torrent-move commands on one job interleave across the await of
\* the relocation collaborator.  The destination of a registered job changes
\* only in the step that dispatches a move, to that move's destination, and a
\* move that completes reports its own destination and writes nothing: the
\* registry holds the destination of the last dispatched move, whichever
\* relocation completed last.
C18_LastDispatchedMoveWins ==
    [][/\ \A obj \in Objs :
             (metadata[obj] # NoMeta /\ metadata'[obj] # NoMeta
                /\ metadata'[obj].destination # metadata[obj].destination)
             => \E k \in MoveIds :
                   /\ moveTask[k].pc = "none"
                   /\ \/ /\ moveTask'[k].pc = "mover"
                         /\ metadata'[obj].destination = moveTask'[k].dest
                      \/ /\ moveTask'[k].pc = "done"
                         /\ metadata'[obj].destination = ev'[3]
       /\ \A k \in MoveIds :
             (moveTask[k].pc = "mover" /\ moveTask'[k].pc = "done")
             => /\ ev'[3] = moveTask[k].dest
                /\ metadata' = metadata]_vars

\* C18 witness, the lost update: the move to /a has just completed and
\* reported /a as the new location, and the one registered job has the
\* destination /b of the move dispatched after it
C18_Witness ==
    /\ ev = <<"/torrent-move", "moved", "/a">>
    /\ Len(metaOrder) = 1
    /\ metadata[torrentMetadata[metaOrder[1]]].destination = "/b"
    /\ \A k \in MoveIds : moveTask[k].pc = "done"

\* the prefix is the leading characters of the id, whatever the case
Leading(id, prefix) ==
    /\ Len(prefix) <= Len(id)
    /\ \A j \in 1..Len(prefix) : ToLower(id[j]) = ToLower(prefix[j])

\* the id registered first among those the prefix leads, NoId without one
FirstMatching(order, prefix) ==
    LET idx == {i \in 1..Len(order) : Leading(order[i], prefix)}
    IN  IF idx = {} THEN NoId
        ELSE order[CHOOSE i \in idx : \A j \in idx : i <= j]

\* C19: the resolver gives, of the registered ids whose leading characters
\* are the prefix but for the case, the one registered first: NotFound on an
\* empty registry or without a match, the first id for the empty prefix; and
\* the order of registration only grows at its end, a job registered again
\* staying where it was.
C19_PrefixResolvesToFirstRegistered ==
    [][/\ \A p \in Prefixes :
             /\ MatchedHash(metaOrder', p) = FirstMatching(metaOrder', p)
             /\ metaOrder' = <<>> => MatchedHash(metaOrder', p) = NoId
       /\ metaOrder' # <<>> => MatchedHash(metaOrder', <<>>) = metaOrder'[1]
       /\ \/ metaOrder' = metaOrder
          \/ \E id \in Ids : /\ torrentMetadata[id] = 0
                              /\ metaOrder' = Append(metaOrder, id)
       /\ \A r \in ResolverObjs :
             (addTask[r].pc = "handler" /\ addTask'[r].pc = "done"
                /\ torrentMetadata[addTask[r].id] # 0)
             => metaOrder' = metaOrder
       /\ (Len(ev') = 3 /\ ev'[1] = "/torrent-location")
             => \E p \in Prefixes : ev'[2] = FirstMatching(metaOrder, p)]_vars

\* C19 witness: both ids are registered, the first of them a second time,
\* and a prefix that leads both but for the case has just resolved to it
C19_Witness ==
    /\ metaOrder = <<Id1, Id2>>
    /\ torrentMetadata[Id1] = 3
    /\ ev = <<"/torrent-location", Id1, metadata[3].destination>>
    /\ MatchedHash(metaOrder, <<"A">>) = Id1
    /\ MatchedHash(metaOrder, <<"a", "c">>) = Id2
    /\ MatchedHash(metaOrder, <<"x">>) = NoId

\* C20 as claimed: the clear collaborator is called with all = true exactly
\* when the argument of /torrent-clear-cache is the token all, and with
\* all = false for any other argument.
C20_AllOnlyForTheTokenAll ==
    [][(Len(ev') = 4 /\ ev'[1] = "/torrent-clear-cache")
          => (ev'[3] = "all" <=> ev'[2] = "all")]_vars

\* C20: the clear collaborator is called with all = true exactly when the
\* argument of /torrent-clear-cache, lowered, is all (ALL included), and with
\* all = false otherwise; the command leaves the registry and the session
\* cache as they are, and every registered job, cleared from the engine or
\* not, still resolves from its id.
C20_ClearCacheLeavesRegistry ==
    [][(Len(ev') >= 2 /\ ev'[1] = "/torrent-clear-cache")
          => /\ Len(ev') = 4 => (ev'[3] = "all" <=> ev'[2] \in {"all", "ALL"})
             /\ Len(ev') = 4 => (ev'[3] = "completed" <=> ev'[2] \notin {"all", "ALL"})
             /\ Len(ev') = 2 => ~cacheClearHandler /\ engine' = engine
             /\ UNCHANGED <<registryVars, sessionVars>>
             /\ \A id \in Ids :
                   torrentMetadata[id] # 0 => MatchedHash(metaOrder', id) # NoId]_vars

\* C20 witness: a registered job was cleared from the engine by the command,
\* and /torrent-location has just resolved it
C20_Witness ==
    \E id \in Ids :
        /\ torrentMetadata[id] # 0
        /\ engine[id] = -1
        /\ Len(ev) = 3 /\ ev[1] = "/torrent-location" /\ ev[2] = id

\* C21: a /torrent-search command with a query stores a search session
\* exactly when the provider answered at least one result: under the ts of
\* the results message, with the results in the order the provider gave them
\* and the channel of the command; when the provider found nothing or threw,
\* a failure is reported and the session cache is left as it was.
C21_SessionOnlyForResults ==
    [][(searches' = searches + 1)
          => LET data == Get(searchResults', SearchKey(searches')) IN
             /\ ev'[1] = "/torrent-search"
             /\ ev'[2] \in {"usage", "error", "nothing found", "results"}
             /\ ev'[2] = "results"
                => /\ ev'[3] >= 1
                   /\ data # NoSession
                   /\ Get(searchResults, SearchKey(searches')) = NoSession
                   /\ Len(data.results) = ev'[3]
                   /\ \A i \in 1..ev'[3] : data.results[i] = Item(i)
                   /\ HasResults(data)
                   /\ Len(searchResults') = Len(searchResults) + 1
             /\ ev'[2] # "results"
                => /\ searchResults' = searchResults
                   /\ timers' = timers]_vars

\* C21 witness: the provider answered two results and the session holds them
\* in its order
C21_Witness ==
    /\ ev = <<"/torrent-search", "results", 2>>
    /\ Get(searchResults, SearchKey(1)).results = <<Item(1), Item(2)>>

\* the reports of a slice that ended by telling the user of a failure: the
\* says of lines 247-259 and 759-762
SaidFailure(report) ==
    report \in {<<"/torrent", "error", "collaborator">>,
                <<"/torrent", "error", "not configured">>,
                <<"/torrent-search", "error">>}

\* C22 as claimed: in the message listeners too, a collaborator call that
\* throws (getMagnet of the search provider in the numeric reply, the add
\* collaborator in the add reply) ends with a failure message to the user.
C22_CollaboratorFailureIsReported ==
    [][/\ \A j \in 1..MaxSelects :
             (selTask[j].pc = "magnet" /\ selTask[j].res = "threw"
                /\ selTask'[j].pc = "done")
             => SaidFailure(ev')
       /\ \A j \in 1..MaxReplies :
             (replyTask[j].pc = "said" /\ replyTask'[j].called
                /\ Len(ev') = 3 /\ ev'[2] = "threw")
             => SaidFailure(ev')]_vars

\* C23 as claimed: in the magnet-link listener a failed reaction call is not
\* surfaced and does not abort the flow: with auto-add the listener goes on to
\* the add collaborator whatever the processing reaction gave, and no failure
\* reply is sent because of a reaction.
C23_ReactionFailureIsSilent ==
    [][\A m \in 1..MaxMagnets :
          /\ (magTask[m].pc = "none" /\ magTask'[m].pc # "none" /\ magTask'[m].auto)
             => magTask'[m].pc = "processing"
          /\ (magTask[m].pc = "failing" /\ magTask'[m].pc = "done"
                /\ ev' = <<"magnet", "failure reply", magTask[m].cause>>)
             => magTask[m].cause # "reaction"]_vars

\* the reactions of the transport on channel message m
ReactionsOf(rs, m) == {r \in rs : r[1] = MagMsg(m)}

\* C24: with auto-add disabled (SLACK_AUTO_ADD_TORRENTS is false or unset) no
\* slice of the listener for a message with a magnet link calls the add
\* collaborator or changes the engine, the registry or the session cache; the
\* message gets the magnet reaction and, that call succeeding, nothing else.
C24_DisabledAutoAddOnlyAcknowledges ==
    [][\A m \in 1..MaxMagnets :
          (magTask'[m] # magTask[m] /\ magTask'[m].env \in {"false", ""})
          => /\ ~magTask'[m].called
             /\ engine' = engine
             /\ UNCHANGED <<registryVars, searchResults, timers>>
             /\ magTask'[m].pc \notin {"processing", "added", "removed", "checked"}
             /\ ReactionsOf(reactions', m) \subseteq {<<MagMsg(m), "mag">>, <<MagMsg(m), "x">>}
             /\ (magTask[m].pc = "none" /\ magTask'[m].cause = "")
                => /\ magTask'[m].pc = "done"
                   /\ reactions' = reactions \cup {<<MagMsg(m), "mag">>}
                   /\ ev' = <<"magnet", "acknowledged">>]_vars

\* C24 witness: with an add collaborator set, a message was acknowledged with
\* the magnet reaction alone and the engine holds no torrent
C24_Witness ==
    /\ torrentHandler
    /\ ev = <<"magnet", "acknowledged">>
    /\ magTask[1].pc = "done" /\ magTask[1].env = "false"
    /\ ReactionsOf(reactions, 1) = {<<MagMsg(1), "mag">>}
    /\ \A id \in Ids : engine[id] < 0

\* the listener has added the magnet link of channel message m: the add
\* collaborator succeeded, the check mark replaced the hourglass and the
\* reply was sent
AutoAdded(m) ==
    /\ magTask[m].pc = "done" /\ magTask[m].called /\ magTask[m].cause = ""
    /\ ReactionsOf(reactions, m) = {<<MagMsg(m), "white_check_mark">>}

\* C25 as claimed: with auto-add on, the monitor called again and again and a
\* transport that never fails, a torrent that the magnet-link listener added
\* and that reaches 100% eventually has its completion message posted.
C25_AutoAddedJobIsNotified ==
    \A m \in 1..MaxMagnets :
        (AutoAdded(m) /\ engine[magTask[m].link] = 1000) ~> Posted(magTask[m].link)

\* C26: with monitor invocations and direct updates of one job interleaving
\* at their awaits, the completion notification of one registration (one
\* tracked object) starts at most once: the slice that starts it finds
\* notified false and leaves it true, and no slice sets it back to false.
C26_NotificationStartsOncePerRegistration ==
    [][\A r \in Objs :
          /\ notifyCalls'[r] <= 1
          /\ notifyCalls'[r] # notifyCalls[r]
             => /\ ~tracked[r].notified
                /\ tracked'[r].notified
                /\ \E t \in TaskIds : tasks'[t].pc = "rmHourglass" /\ tasks'[t].obj = r
          /\ (Live(r) /\ tracked[r].notified) => tracked'[r].notified]_vars

\* C26 witness: while a task is inside the notification of a job, a later
\* monitor tick has fed the same job, the only one of the engine, and started
\* nothing
C26_Witness ==
    \E r \in Objs, t \in TaskIds :
        /\ tasks[t].obj = r /\ tasks[t].pc # "idle"
        /\ notifyCalls[r] = 1
        /\ metadata[r].infoHash = Id1 /\ trackedTorrents[Id1] = r
        /\ engine[Id2] < 0
        /\ ev = <<"monitorProgress", "stored">>

\* progress task t comes back from the notification it awaited and
\* updateTorrentProgress runs to its end
Resumes(t) ==
    /\ tasks[t].pc # "idle"
    /\ tasks'[t].pc = "idle" \/ tasks'[t].obj # tasks[t].obj

\* C27 as claimed: when a job was added again while updateTorrentProgress for
\* its id awaited the completion notification, the registry still holds the
\* newly registered entry after the update has resumed, not the entry the
\* update read before it was suspended.
C27_ReAddSurvivesInFlightUpdate ==
    [][\A t \in TaskIds :
          (Resumes(t) /\ trackedTorrents[tasks[t].id] # tasks[t].obj)
          => /\ trackedTorrents'[tasks[t].id] = trackedTorrents[tasks[t].id]
             /\ trackedTorrents'[tasks[t].id] # tasks[t].obj]_vars

\* C28 as claimed: in every reachable state trackedTorrents and
\* torrentMetadata hold the same ids, and for each id the metadata of the
\* tracked entry is the object torrentMetadata holds (a tracked object and
\* its metadata object are made together and carry the same number), so both
\* show one destination.
C28_RegistryMapsAgree ==
    \A id \in Ids :
        /\ (trackedTorrents[id] # 0) <=> (torrentMetadata[id] # 0)
        /\ trackedTorrents[id] = torrentMetadata[id]
        /\ trackedTorrents[id] # 0
           => metadata[trackedTorrents[id]].destination
                = metadata[torrentMetadata[id]].destination

\* the message of registration r carries the success reaction and not the
\* processing one
MarkedDone(r) ==
    /\ <<metadata[r].messageTs, "white_check_mark">> \in reactions
    /\ <<metadata[r].messageTs, "hourglass_flowing_sand">> \notin reactions

\* C29 as claimed: with the monitor called again and again, every awaited
\* call returning and a transport that never fails, the message of the entry
\* the registry holds for a job whose download is complete eventually
\* carries the success reaction and not the hourglass.
C29_CompletedJobLosesHourglass ==
    \A r \in Objs :
        (/\ Live(r)
         /\ trackedTorrents[metadata[r].infoHash] = r
         /\ engine[metadata[r].infoHash] = 1000)
        ~> MarkedDone(r)

\* p is the integer percentage nearest to the fraction m (in thousandths),
\* a half counting upwards
Nearest(p, m) == 10 * p - 5 <= m /\ m < 10 * p + 5

\* the items fed, in the order of list, have their percentage recorded in
\* the entries the registry tt holds for them
FedInOrder(tt, tr, list, n) ==
    \A i \in 1..n :
        tt[list[i][1]] # 0 => tr[tt[list[i][1]]].progress = list[i][2]

\* C30: monitorProgress on a disabled bot does nothing.  Enabled, it feeds
\* the torrents of its input one after the other, in the order of the input,
\* to updateTorrentProgress, each with the integer percentage nearest to its
\* fraction: the slice goes on until a call awaits a notification, the items
\* behind it are kept in the order of the input and fed when the task resumes.
C30_MonitorFeedsInOrderRounded ==
    [][/\ (Len(ev') >= 2 /\ ev'[1] = "monitorProgress")
          => IF ~isEnabled
             THEN /\ ev' = <<"monitorProgress", "off">>
                  /\ UNCHANGED <<registryVars, transportVars, tasks, notifyCalls>>
             ELSE LET list == EngineList(IdSeq)
                      n == Len(ev') - 1
                      items == [i \in 1..Len(list) |->
                                  <<list[i][1],
                                    CHOOSE p \in 0..100 : Nearest(p, list[i][2])>>]
                  IN  /\ n <= Len(list)
                      /\ \A i \in 1..(n - 1) : ev'[i + 1] # "fired"
                      /\ FedInOrder(trackedTorrents', tracked', items, n)
                      /\ ev'[n + 1] # "fired"
                         => /\ n = Len(list)
                            /\ \A t \in TaskIds : tasks'[t] = tasks[t]
                      /\ ev'[n + 1] = "fired"
                         => \E t \in TaskIds :
                               /\ tasks[t].pc = "idle" /\ tasks'[t].pc # "idle"
                               /\ tasks'[t].id = list[n][1]
                               /\ tasks'[t].rest = SubSeq(items, n + 1, Len(items))
       /\ \A t \in TaskIds :
             Resumes(t)
             => LET rest == tasks[t].rest IN
                IF tasks'[t].pc = "idle"
                THEN FedInOrder(trackedTorrents', tracked', rest, Len(rest))
                ELSE \E n \in 1..Len(rest) :
                        /\ tasks'[t].id = rest[n][1]
                        /\ tasks'[t].rest = SubSeq(rest, n + 1, Len(rest))
                        /\ FedInOrder(trackedTorrents', tracked', rest, n)]_vars

\* C30 witness: one monitor slice has fed both torrents of the engine in its
\* order, storing 99 for the fraction 0.994 and starting the notification of
\* the second; and a fraction of 0.996 is recorded as 100
C30_Witness ==
    /\ ev = <<"monitorProgress", "stored", "fired">>
    /\ engine[Id1] = 994 /\ trackedTorrents[Id1] # 0
    /\ tracked[trackedTorrents[Id1]].progress = 99
    /\ engine[Id2] = 996 /\ trackedTorrents[Id2] # 0
    /\ tracked[trackedTorrents[Id2]].progress = 100

\* C31 as claimed: a completion notification started through monitorProgress
\* is started only for a job whose fraction in the download engine is 1; no
\* fraction below 1 makes it start.
C31_NotifiesOnlyCompleteDownloads ==
    [][\A r \in Objs :
          notifyCalls'[r] # notifyCalls[r]
          => engine[metadata[r].infoHash] = 1000]_vars

\* no key of the registry starts with the prefix, whatever the case
Unmatched(prefix) == \A i \in 1..Len(metaOrder) : ~Leading(metaOrder[i], prefix)
\* the cache holds no search session under the key
NoLiveSearch(key) ==
    \A i \in 1..Len(searchResults) :
        searchResults[i].key = key => searchResults[i].results = <<>>

\* C32: a lookup that misses changes nothing. /torrent-location and
\* /torrent-move with a prefix that no registered id starts with reply 'not
\* found', leave both registries and every entry as they were and do not call
\* the relocation collaborator; a numeric reply in a thread without a live
\* search session (never made, or expired) calls no provider and stores no
\* session.
C32_LookupMissChangesNothing ==
    [][/\ \A hash \in HashArgs \ {<<>>} :
             LocationCommand(hash) /\ Unmatched(hash)
             => /\ ev' = <<"/torrent-location", "not found">>
                /\ UNCHANGED <<registryVars, moveTask>>
       /\ \A k \in MoveIds, hash \in HashArgs \ {<<>>} :
             MoveCommand(k, hash, "/a") /\ Unmatched(hash)
             => /\ ev' = <<"/torrent-move", "not found">>
                /\ UNCHANGED registryVars
                /\ moveTask'[k].pc = "done"
       /\ \A j \in 1..MaxSelects :
             Select(j, SearchKey(1), 1, "C1") /\ NoLiveSearch(SearchKey(1))
             => /\ ev' = <<"select", "ignored">>
                /\ selTask'[j].pc = "done"
                /\ UNCHANGED <<searchResults, timers, stored>>]_vars

\* C32 witness: with a job registered and the relocation collaborator set, a
\* move command has just missed; a numeric reply has ended at its lookup
\* (no torrent was selected), and the session of the search has expired
C32_Witness ==
    /\ ev = <<"/torrent-move", "not found">>
    /\ metaOrder # <<>>
    /\ torrentMoveHandler
    /\ searches = 1 /\ stored # {} /\ searchResults = <<>>
    /\ \E j \in 1..MaxSelects : selTask[j].pc = "done" /\ selTask[j].item = NoItem

\* the cache holds a magnet session under the key
MagnetSessionAt(key) ==
    \E i \in 1..Len(searchResults) :
        searchResults[i].key = key /\ searchResults[i].magnetLink # NoId

\* C33: the two kinds of session never serve each other's step. An add reply
\* in a channel whose cache entries are all search sessions is ignored: no
\* link is taken and the add collaborator is not called. A numeric reply in a
\* thread whose identifier is the key of a magnet session calls no provider,
\* stores no session and sends nothing to the add collaborator.
C33_SessionKindsAreSeparate ==
    [][/\ \A j \in 1..MaxReplies, c \in Channels :
             AddReply(j, c, "movie", "") /\ MagnetsOf(c) = {}
             => /\ replyTask'[j] = [NoReply EXCEPT !.pc = "done"]
                /\ UNCHANGED <<searchResults, engine>>
       /\ \A j \in 1..MaxSelects, n \in 1..MaxResults :
             Select(j, SelKey(1), n, "C1") /\ MagnetSessionAt(SelKey(1))
             => /\ selTask'[j].pc = "done"
                /\ UNCHANGED <<searchResults, timers, stored, replyTask, engine>>]_vars

\* C33 witness: a numeric reply in the thread of the first numeric reply has
\* just ended at its lookup while the magnet session of that thread is in the
\* cache; an add reply has been ignored (it took no link) and the search has
\* been made
C33_Witness ==
    /\ ev = <<"select", "threw">>
    /\ selTask[2].pc = "done" /\ selTask[2].thread = SelKey(1)
    /\ MagnetSessionAt(SelKey(1))
    /\ replyTask[1].pc = "done" /\ replyTask[1].link = NoId /\ ~replyTask[1].called
    /\ \E x \in stored : x.kind = "search"

\* a message has just been published: the record of it
Publishing == Len(published') = Len(published) + 1
JustPublished == published'[Len(published')]

\* C34 as claimed: the completion message shows the destination the registry
\* holds for the job at the moment the message is published.
C34_MessageShowsRegistryDestination ==
    [][Publishing
       => LET id == metadata[JustPublished.obj].infoHash IN
          torrentMetadata[id] # 0
          => JustPublished.destination = metadata[torrentMetadata[id]].destination]_vars

\* C34 amended: the completion message shows the destination that the
\* metadata object taken at the start of the notification holds when the
\* message is published; as long as the registry still holds that object for
\* the job (the job was not added again meanwhile), this is the registry's
\* destination, a move made during the reaction steps included.
C34_MessageShowsObjectDestination ==
    [][Publishing
       => LET r == JustPublished.obj
              id == metadata[r].infoHash
          IN  /\ \E t \in TaskIds : tasks[t].pc = "addEmoji" /\ tasks[t].obj = r
              /\ JustPublished.destination = metadata[r].destination
              /\ torrentMetadata[id] = r
                 => JustPublished.destination
                    = metadata[torrentMetadata[id]].destination]_vars

\* C34 witness: a move has just rewritten the destination of a job whose
\* notification is between its reaction steps, and an earlier completion
\* message shows a moved destination
C34_Witness ==
    /\ ev = <<"/torrent-move", "location updated", "/new">>
    /\ \E t \in TaskIds :
          /\ tasks[t].pc \in {"rmHourglass", "addCheck", "addEmoji"}
          /\ torrentMetadata[tasks[t].id] = tasks[t].obj
          /\ metadata[tasks[t].obj].destination = "/new"
    /\ \E i \in 1..Len(published) : published[i].destination = "/new"

\* C35: /torrent-list reports exactly one entry per job that the list
\* collaborator returned, in the collaborator's order, each with the
\* destination the registry holds for the job, or 'Unknown' for a job the
\* registry does not hold; it changes neither the registry nor the session
\* cache.
C35_ListReportsEveryJobOnce ==
    [][\A torrents \in ListInputs \ {<<>>} :
          ListCommand(TRUE, torrents) /\ torrentListHandler
          => /\ Len(ev') = 3 /\ ev'[2] = "list"
             /\ Len(ev'[3]) = Len(torrents)
             /\ \A i \in 1..Len(torrents) :
                   /\ ev'[3][i][1] = torrents[i]
                   /\ ev'[3][i][2] =
                        IF torrentMetadata[torrents[i]] # 0
                        THEN metadata[torrentMetadata[torrents[i]]].destination
                        ELSE "Unknown"
             /\ UNCHANGED <<registryVars, searchResults, timers>>]_vars

\* C35 witness: a list has just been reported with a registered job that was
\* moved and, before it, a job the registry does not hold, while the session
\* cache holds a session
C35_Witness ==
    /\ Len(ev) = 3 /\ ev[1] = "/torrent-list"
    /\ ev[3] = <<<<Id2, "Unknown">>, <<Id1, "/new">>>>
    /\ torrentMetadata[Id2] = 0 /\ torrentMetadata[Id1] # 0
    /\ searchResults # <<>>

\* C36 as claimed: when /torrent fails after its 'Adding torrent' message was
\* sent (the add collaborator is not configured, or throws), the reaction 'x'
\* is on that message when the error reply is sent.
C36_FailedAddIsMarked ==
    [][\A r \in Objs :
          /\ addTask'[r] # addTask[r]
          /\ Len(ev') = 3 /\ ev'[1] = "/torrent" /\ ev'[2] = "error"
          => <<CmdMsg(r), "x">> \in reactions']_vars

\* C37 as claimed: after stop() has completed, a monitorProgress or
\* updateTorrentProgress call changes no registry entry and starts no
\* completion notification.
C37_NoProgressAfterStop ==
    [][/\ isEnabled /\ ~appRunning
       /\ \E t \in TaskIds :
             \/ MonitorProgress(t)
             \/ \E id \in Ids, p \in ProgVals : UpdateTorrentProgress(t, id, p)
       => UNCHANGED <<tracked, trackedTorrents, notifyCalls, published>>]_vars

\* a step of the task itself: the continuation of one of its awaits
OwnStep(t) == NotifyRemoved(t) \/ NotifyChecked(t) \/ NotifyTyped(t) \/ NotifyPosted(t)

====
